---- MODULE Spec2Model ----
(***************************************************************************)
(* PhilVerify: the scoring engine (scoring/engine.py), the verify routes   *)
(* (api/routes/verify.py), the history store (api/routes/history.py,       *)
(* firebase_client.py), the stance rules (evidence/stance_detector.py),    *)
(* the evidence fetcher and its cache (evidence/news_fetcher.py) and the   *)
(* model objects of the process as a state machine.                        *)
(*                                                                         *)
(* Numbers.  Python floats are modelled in exact fixed point:              *)
(*   - a score with one decimal (final_score, thresholds, the classifier's *)
(*     confidence, which both classifiers round to one decimal) is an      *)
(*     integer count of tenths: 70.0 is 700;                               *)
(*   - an unrounded score (evidence_score, base_score, domain_adjustment)  *)
(*     is an integer count of 1/U points, U = 6000, which represents       *)
(*     exactly every value the code can compute from the modelled inputs   *)
(*     (weights in 1/100, multipliers in 1/1000, averages over 1..5);      *)
(*   - a similarity is an integer count of hundredths.                     *)
(* round(x, 1) on a value that lies exactly half way between two tenths    *)
(* depends on the binary representation of the float: the model lets it    *)
(* produce either neighbour.                                               *)
(***************************************************************************)
EXTENDS Integers, Sequences, FiniteSets, TLC

VARIABLES
    settings,           \* config.Settings: weights, thresholds, news_api_key
    pc,                 \* position of the request being served
    route,              \* which verify route serves the request
    req_id,             \* number of the request being served (0: none yet)
    text_len,           \* len(text.strip()) of the text the route extracted (-1: none)
    source_tier,        \* get_domain_tier(source_domain); 0 when no source_domain
    nlp_cache,          \* engine._nlp_cache: the keys that hold an instance
    tfidf_builds,       \* completed runs of the _make_tfidf factory
    xlmr_failed,        \* constructing XLMRobertaClassifier raised in this request
    model_tier,         \* "xlmr" | "tfidf": the classifier obtained for the request
    l1,                 \* the record classifier.predict returned
    exc,                \* the exception run_verification (or the route) raised
    articles_left,      \* articles of fetch_evidence still to be scored
    evidence_failed,    \* the evidence step raised and was caught (line 203)
    evidence_score,     \* engine local evidence_score (1/U points)
    evidence_sources,   \* engine local evidence_sources
    scored,             \* the article each entry of evidence_sources was built from
    l2_verdict,         \* engine local l2_verdict
    layer2,             \* the Layer2Result
    ml_credibility,     \* tenths
    multiplier,         \* disagreement multiplier, thousandths (0: not computed)
    domain_adjustment,  \* 1/U points
    final_score,        \* tenths
    result,             \* the VerificationResponse handed to the caller
    persist,            \* what the persistence step met
    status,             \* HTTP status of the answer (0: none yet)
    firestore,          \* ids of the documents in the verifications collection
    _HISTORY,           \* history._HISTORY, the in-memory list
    history_file,       \* content of data/history.json
    file_lock,          \* holder of history._file_lock (0: free)
    file_before,        \* content of data/history.json before the appends began
    wpc,                \* position of each concurrent record_verification call
    records,            \* each call's local list read from the file
    io_failed,          \* the calls whose file read or write failed
    listing,            \* the HistoryResponse of the GET /history being answered
    article,            \* the arguments of a detect_stance call
    stance_result,      \* the StanceResult it returned
    stances,            \* the stances argument of compute_evidence_score
    similarities,       \* its similarities argument, hundredths
    aggregate,          \* the (score, verdict) it returned; score in tenths
    now,                \* the time, in units of the clock
    cache_files,        \* the files of news_fetcher._CACHE_DIR for the query, by prefix
    cache_saved,        \* the last _save_cache call made, by prefix
    fetches,            \* each fetch_evidence call: its position and its locals
    merge_in,           \* the two source lists and max_results of a merge
    merged,             \* the list the merge gave
    inflight,           \* each in-flight run_verification: its position and the
                        \* model instances it was given
    builds,             \* completed constructions of each model object
    similarity_model    \* the lru_cache of similarity._get_model and its loads

vars == << settings, pc, route, req_id, text_len, source_tier, nlp_cache, tfidf_builds,
           xlmr_failed, model_tier, l1, exc, articles_left, evidence_failed,
           evidence_score, evidence_sources, scored, l2_verdict, layer2,
           ml_credibility, multiplier, domain_adjustment, final_score, result,
           persist, status, firestore, _HISTORY, history_file, file_lock,
           file_before, wpc, records, io_failed, listing,
           article, stance_result, stances, similarities, aggregate,
           now, cache_files, cache_saved, fetches, merge_in, merged,
           inflight, builds, similarity_model >>

----------------------------------------------------------------------------
(* Bounds of the model *)

ConfGrid == 20          \* confidences and evidence scores: a grid of ConfGrid+1 values
MaxArticles == 2        \* articles fetch_evidence returns (the code's cap is 5)
MaxRequests == 2        \* requests served one after the other, no news_api_key set
MaxKeyRequests == 1     \* requests served one after the other, news_api_key set
MaxWriters == 2         \* concurrent record_verification calls
MaxCalls == 2           \* concurrent fetch_evidence calls for one query
MaxClock == 1           \* ticks of the clock
MaxFetched == 2         \* articles in a source list given to the merge
MaxInflight == 2        \* in-flight run_verification calls

----------------------------------------------------------------------------
(* Fixed point *)

U == 60 * 100                       \* units per score point
TenthU == U \div 10                 \* units per tenth of a point

Min(a, b) == IF a < b THEN a ELSE b
Max(a, b) == IF a > b THEN a ELSE b
Abs(a) == IF a < 0 THEN 0 - a ELSE a

\* round(x, 1) for x >= 0 in units: the tenths it can produce
Round1(x) ==
    LET q == x \div TenthU
        r == x % TenthU
    IN  IF 2 * r < TenthU THEN {q}
        ELSE IF 2 * r > TenthU THEN {q + 1}
        ELSE {q, q + 1}

----------------------------------------------------------------------------
(* Enumerations and configuration *)

Verdicts == {"Credible", "Unverified", "Likely Fake"}
Tiers == 1..4           \* CREDIBLE, SATIRE_OPINION, SUSPICIOUS, KNOWN_FAKE
NoTier == 0             \* get_domain_tier was not called: source_domain is None or ""

\* Settings defaults; weights in hundredths, thresholds in tenths
DefaultSettings ==
    [ ml_weight |-> 40, evidence_weight |-> 60,
      credible_threshold |-> 700, fake_threshold |-> 400 ]

\* A configuration whose weights do not sum to 1.0 (the code does not enforce it)
OtherSettings ==
    [ ml_weight |-> 70, evidence_weight |-> 70,
      credible_threshold |-> 600, fake_threshold |-> 300 ]

\* news_api_key: TRUE when a key is configured (a non-empty string)
WithKey(d, k) ==
    [ ml_weight |-> d.ml_weight, evidence_weight |-> d.evidence_weight,
      credible_threshold |-> d.credible_threshold,
      fake_threshold |-> d.fake_threshold, news_api_key |-> k ]

SettingsSet == { WithKey(d, k) : d \in {DefaultSettings, OtherSettings}, k \in BOOLEAN }

----------------------------------------------------------------------------
(* Step 9 of run_verification: the fusion *)

_BASE_ADJ == [ t \in Tiers |-> CASE t = 1 -> 20 [] t = 2 -> 0 - 5
                                 [] t = 3 -> 0 - 10 [] t = 4 -> 0 - 35 ]

_TIER_IMPLIED_SCORE == [ t \in Tiers |-> CASE t = 1 -> 750 [] t = 2 -> 500
                                           [] t = 3 -> 500 [] t = 4 -> 250 ]

\* Mutant: only a Likely Fake verdict inverts the confidence
MlCredibility_UnverifiedKept(verdict, confidence) ==
    IF verdict = "Likely Fake" THEN 1000 - confidence ELSE confidence

\* line 216
MlCredibility(verdict, confidence) ==
    IF verdict = "Credible" THEN confidence ELSE 1000 - confidence

\* line 217: (ml_credibility * ml_weight) + (evidence_score * evidence_weight)
BaseScore(s, mlc, ev) ==
    (mlc * s.ml_weight * (U \div 1000)) + ((ev * s.evidence_weight) \div 100)

\* Mutant: the disagreement is measured in steps of 25 points
Disagreement_Per25(tier, mlc) == (Abs(mlc - _TIER_IMPLIED_SCORE[tier]) * 1000) \div 250

\* line 246: abs(ml_credibility - implied) / 50.0, in thousandths
Disagreement(tier, mlc) == (Abs(mlc - _TIER_IMPLIED_SCORE[tier]) * 1000) \div 500

\* Mutant: the cap of the stale comment at line 223 (1.0-2.0)
Multiplier_Cap2(tier, mlc) == Min(2000, 1000 + (Disagreement(tier, mlc) * 5) \div 10)

\* line 247: min(1.5, 1.0 + disagreement * 0.5), in thousandths
Multiplier(tier, mlc) == Min(1500, 1000 + (Disagreement(tier, mlc) * 5) \div 10)

\* Mutant: the base adjustment without the disagreement multiplier
DomainAdjustment_NoMultiplier(tier, mlc) ==
    IF tier = NoTier THEN 0 ELSE _BASE_ADJ[tier] * U

\* lines 226-249
DomainAdjustment(tier, mlc) ==
    IF tier = NoTier THEN 0
    ELSE _BASE_ADJ[tier] * Multiplier(tier, mlc) * (U \div 1000)

\* Mutant: the upper bound is applied, the lower one is not
Clamp_NoFloor(x) == Min(100 * U, x)

\* line 257, before rounding: min(100.0, max(0.0, x))
Clamp(x) == Min(100 * U, Max(0, x))

\* line 257: the values round(min(100.0, max(0.0, base + adj)), 1) can take
FinalScores(s, verdict, confidence, ev, tier) ==
    LET mlc == MlCredibility(verdict, confidence)
    IN  Round1(Clamp(BaseScore(s, mlc, ev) + DomainAdjustment(tier, mlc)))

\* Mutant: exclusive boundaries
_map_verdict_Strict(s, score) ==
    IF score > s.credible_threshold THEN "Credible"
    ELSE IF score > s.fake_threshold THEN "Unverified"
    ELSE "Likely Fake"

\* lines 58-64
_map_verdict(s, score) ==
    IF score >= s.credible_threshold THEN "Credible"
    ELSE IF score >= s.fake_threshold THEN "Unverified"
    ELSE "Likely Fake"

----------------------------------------------------------------------------
(* Texts: a text is the sequence of its words, a URL the sequence of its    *)
(* parts                                                                    *)

\* str.lower() on the words and URL parts of the model
Lower(w) ==
    CASE w = "FALSE" -> "false"
      [] w = "Confirmed" -> "confirmed"
      [] w = "HTTPS" -> "https"
      [] w = "VERAFILES.ORG" -> "verafiles.org"
      [] w = "GMA" -> "gma"
      [] w = "Network" -> "network"
      [] w = "BBC" -> "bbc"
      [] w = "Rappler" -> "rappler"
      [] OTHER -> w

LowerAll(seq) == [ i \in DOMAIN seq |-> Lower(seq[i]) ]

\* The places where phrase occurs in seq: `phrase in seq`, re.search
Positions(seq, phrase) ==
    { i \in 1..(Len(seq) - Len(phrase) + 1) :
        SubSeq(seq, i, i + Len(phrase) - 1) = phrase }

Contains(seq, phrase) == Positions(seq, phrase) # {}

----------------------------------------------------------------------------
(* Values of the request-local state *)

NoL1 == [ verdict |-> "none", confidence |-> 0, triggered_features |-> << >> ]
NoLayer2 == [ verdict |-> "none", evidence_score |-> 0, sources |-> << >> ]
NoResult == [ verdict |-> "none", final_score |-> 0, layer1 |-> NoL1, layer2 |-> NoLayer2 ]

NoPersist == [ save |-> "none", first |-> "none", retry |-> "none" ]

\* No GET /history was answered yet
NoListing == [ tier |-> "none", at |-> 0, page |-> 0, limit |-> 0,
               total |-> 0, entries |-> << >> ]

\* No detect_stance and no compute_evidence_score call was made
NoArticle == [ title |-> << >>, description |-> << >>, url |-> << >>,
               similarity |-> 0 - 1 ]
NoStanceResult == [ stance |-> "none", confidence |-> 0, matched_keywords |-> << >> ]
NoAggregate == [ score |-> 0 - 1, verdict |-> "none" ]

StanceIdle ==
    /\ article = NoArticle
    /\ stance_result = NoStanceResult
    /\ stances = << >>
    /\ similarities = << >>
    /\ aggregate = NoAggregate

\* A cache file of news_fetcher: whether the path exists, whether its text
\* is the JSON of a list, the list, and the time it was written
NoFile == [ exists |-> FALSE, valid |-> FALSE, data |-> << >>, at |-> 0 ]
Prefixes == {"gnews", "newsapi"}

\* A fetch_evidence call that has not started; gnews and newsapi tell where
\* the call took the list from: from the cache or from the source
NoFetch == [ pc |-> "idle", gnews_articles |-> << >>, newsapi_articles |-> << >>,
             gnews |-> [ from |-> "none" ], newsapi |-> [ from |-> "none" ],
             merged |-> << >> ]
Calls == 1..MaxCalls

\* No file is there, no call runs and no _save_cache call was made (else
\* cache_saved holds the list the last call was given and what its
\* write_text did); no merge was made
FetchIdle ==
    /\ now = 0
    /\ cache_files = [ p \in Prefixes |-> NoFile ]
    /\ cache_saved = [ p \in Prefixes |-> [ data |-> << >>, write |-> "none" ] ]
    /\ fetches = [ c \in Calls |-> NoFetch ]
    /\ merge_in = [ gnews_articles |-> << >>, newsapi_articles |-> << >>,
                    max_results |-> 0 ]
    /\ merged = [ done |-> FALSE, articles |-> << >> ]

\* The keys of engine._nlp_cache in the order run_verification asks for them
\* (engine.py lines 86, 90, 95-98, 110, 117)
PipelineKeys ==
    << "preprocessor", "lang_detector", "ner_extractor", "sentiment",
       "clickbait", "claim_extractor", "xlmr_classifier", "tfidf_classifier" >>
CacheKeys == { PipelineKeys[i] : i \in DOMAIN PipelineKeys }

\* The sentence-transformers model compute_similarity encodes with
\* (news_fetcher.py line 312, similarity.py line 18)
Embedder == "all-MiniLM-L6-v2"
ModelObjects == CacheKeys \cup {Embedder}
Inflight == 1..MaxInflight

\* An in-flight run_verification: its position, and for each model object the
\* instance it was last given (0: none yet); an instance is named by the
\* number of the construction that built it
NotStarted == [ pc |-> "idle", instances |-> [ k \in ModelObjects |-> 0 ] ]

\* No request runs and nothing was constructed; the lru_cache of _get_model
\* holds nothing ("empty"; later the model, or None)
ModelsIdle ==
    /\ inflight = [ r \in Inflight |-> NotStarted ]
    /\ builds = [ k \in ModelObjects |-> 0 ]
    /\ similarity_model = [ cached |-> "empty", loads |-> 0 ]

Routes == {"text", "url", "image", "video"}
Writers == 1..MaxWriters

\* The request-local variables before a request is served
LocalsReset ==
    /\ xlmr_failed' = FALSE
    /\ model_tier' = "none"
    /\ l1' = NoL1
    /\ articles_left' = 0
    /\ evidence_failed' = FALSE
    /\ evidence_score' = 0
    /\ evidence_sources' = << >>
    /\ scored' = << >>
    /\ l2_verdict' = "none"
    /\ layer2' = NoLayer2
    /\ ml_credibility' = 0
    /\ multiplier' = 0
    /\ domain_adjustment' = 0
    /\ final_score' = 0
    /\ result' = NoResult
    /\ persist' = NoPersist

HistoryUnchanged == UNCHANGED << firestore, _HISTORY, history_file >>
WritersUnchanged == UNCHANGED << file_lock, file_before, wpc, records, io_failed >>
ListingUnchanged == UNCHANGED listing
StanceUnchanged ==
    UNCHANGED << article, stance_result, stances, similarities, aggregate >>
FetchUnchanged ==
    UNCHANGED << now, cache_files, cache_saved, fetches, merge_in, merged >>
ModelsUnchanged == UNCHANGED << inflight, builds, similarity_model >>

----------------------------------------------------------------------------
(* The verify routes up to the call of run_verification                    *)
(* (verify.py lines 78-82, 99-113, 136-154, 173-194)                       *)

\* What the extraction of a route can do.  "text": it returns a text (or
\* None); "ValueError", "Exception": it raises; "unsupported": the content
\* type of the upload is not accepted.  The text route extracts nothing.
Extractions(r) ==
    CASE r = "text" -> {"text"}
      [] r = "url" -> {"text", "ValueError", "Exception"}
      [] OTHER -> {"text", "Exception", "unsupported"}

\* lines 105, 108, 147, 187, and TextVerifyRequest (schemas.py line 49)
MinLength(r) == IF r = "url" THEN 20 ELSE 10

\* Stripped lengths of an extracted text; no text (None or "") counts as 0
Lengths(r) == IF r = "text" THEN {MinLength(r)}
              ELSE {0, MinLength(r) - 1, MinLength(r)}

\* The extraction did not return: the route has no text
NoText == 0 - 1

\* Mutant: only a missing or empty text is rejected
TooShort_EmptyOnly(r, n) == n = 0

\* lines 105, 108, 147, 187: not text or len(text.strip()) < minimum
TooShort(r, n) == n < MinLength(r)

\* lines 104-107: the text of scrape_url (stripped length n1), replaced by
\* the one of _fetch_og_text (n2) when the first is too short
ExtractedLength(r, n1, n2) == IF r = "url" /\ TooShort(r, n1) THEN n2 ELSE n1

\* The status a route answers with when exception e reaches its handlers
\* (lines 86-88, 117-125, 158-162, 198-202)
RouteStatus(r, e) ==
    IF e = "HTTPException415" THEN 415
    ELSE IF e = "HTTPException422" THEN 422
    ELSE IF r = "url" /\ e = "ValueError" THEN 422
    ELSE 500

Receive(r) ==
    /\ pc = "idle"
    /\ req_id < (IF settings.news_api_key THEN MaxKeyRequests ELSE MaxRequests)
    /\ req_id' = req_id + 1
    /\ route' = r
    /\ LocalsReset
    /\ \E x \in Extractions(r), n1 \in Lengths(r), n2 \in Lengths(r), t \in Tiers :
        LET n == ExtractedLength(r, n1, n2)
            e == CASE x = "unsupported" -> "HTTPException415"
                   [] x \in {"ValueError", "Exception"} -> x
                   [] r # "text" /\ TooShort(r, n) -> "HTTPException422"
                   [] OTHER -> "none"
        IN  /\ x # "text" => n1 = 0
            /\ ~(x = "text" /\ r = "url" /\ TooShort(r, n1)) => n2 = 0
            /\ (r # "url" \/ e # "none") => t = 1
            /\ text_len' = IF x = "text" THEN n ELSE NoText
            /\ exc' = e
            /\ source_tier' = IF r = "url" /\ e = "none" THEN t ELSE NoTier
            /\ pc' = IF e = "none" THEN "layer1" ELSE "responded"
            /\ status' = IF e = "none" THEN 0 ELSE RouteStatus(r, e)
    /\ listing' = NoListing
    /\ UNCHANGED << settings, nlp_cache, tfidf_builds >>
    /\ HistoryUnchanged /\ WritersUnchanged /\ StanceUnchanged
    /\ FetchUnchanged /\ ModelsUnchanged

----------------------------------------------------------------------------
(* run_verification step 7: the classifier and its prediction, lines 105-140 *)

\* Mutant: the instance is returned but never stored
_get_nlp_NoStore(cache, key, built) == cache

\* lines 28-32: the cache after _get_nlp(key, factory); built says whether the
\* factory, if it is called, completes
_get_nlp(cache, key, built) ==
    IF key \in cache THEN cache
    ELSE IF built THEN cache \cup {key} ELSE cache

PipelineConfidences == {125, 900}

\* The triggered_features of the record classifier.predict returns
\* (tfidf_classifier.py line 127, xlm_roberta_classifier.py line 170)
ClassifierFeatures == << "libre" >>

\* xlmr: what XLMRobertaClassifier() does when it is constructed; tfidf:
\* whether _make_tfidf completes; predict: what classifier.predict does; out:
\* the record it returns.  A choice that is not used is fixed to one value.
Layer1 ==
    /\ pc = "layer1"
    /\ \E xlmr \in {"ok", "ModelNotFoundError", "Exception"},
          tfidf \in BOOLEAN,
          predict \in {"ok", "ValueError", "Exception"},
          out \in [ verdict : Verdicts, confidence : PipelineConfidences ] :
        LET hit == "xlmr_classifier" \in nlp_cache
            use_xlmr == hit \/ xlmr = "ok"
            cache1 == _get_nlp(nlp_cache, "xlmr_classifier", xlmr = "ok")
            tfidf_hit == "tfidf_classifier" \in cache1
            cache2 == IF use_xlmr THEN cache1
                      ELSE _get_nlp(cache1, "tfidf_classifier", tfidf)
            have == use_xlmr \/ tfidf_hit \/ tfidf
        IN  /\ hit => xlmr = "ok"
            /\ (use_xlmr \/ tfidf_hit) => tfidf
            /\ ~have => predict = "ok"
            /\ predict # "ok" => out.verdict = "Credible"
            /\ nlp_cache' = cache2
            /\ tfidf_builds' = IF ~use_xlmr /\ ~tfidf_hit /\ tfidf
                               THEN tfidf_builds + 1 ELSE tfidf_builds
            /\ xlmr_failed' = ~use_xlmr
            /\ model_tier' = IF use_xlmr THEN "xlmr"
                              ELSE IF have THEN "tfidf" ELSE "none"
            /\ IF ~have
               THEN /\ exc' = "Exception" /\ pc' = "raised" /\ l1' = NoL1
               ELSE IF predict # "ok"
               THEN /\ exc' = predict /\ pc' = "raised" /\ l1' = NoL1
               ELSE /\ exc' = "none" /\ pc' = "enrich"
                    /\ l1' = [ verdict |-> out.verdict, confidence |-> out.confidence,
                               triggered_features |-> ClassifierFeatures ]
    /\ UNCHANGED << settings, route, req_id, text_len, source_tier, articles_left,
                    evidence_failed, evidence_score, evidence_sources, scored,
                    l2_verdict, layer2, ml_credibility, multiplier,
                    domain_adjustment, final_score, result, persist, status >>
    /\ HistoryUnchanged /\ WritersUnchanged /\ ListingUnchanged /\ StanceUnchanged
    /\ FetchUnchanged /\ ModelsUnchanged

\* What steps 4 and 5 found in the text: the ClickbaitResult (clickbait.py
\* lines 30-33) and the sentiment (sentiment.py line 36)
NlpSignals ==
    { [ is_clickbait |-> FALSE, triggered_patterns |-> << >>, sentiment |-> "neutral" ],
      [ is_clickbait |-> TRUE,
        triggered_patterns |-> << "all_caps", "exclamations", "shocking", "share" >>,
        sentiment |-> "high negative" ] }

\* lines 131-134: what l1.triggered_features holds after extend and append
Enriched(features, signals) ==
    LET patterns == signals.triggered_patterns
        with_clickbait ==
            IF signals.is_clickbait
            THEN features \o SubSeq(patterns, 1, Min(3, Len(patterns)))
            ELSE features
    IN  IF signals.sentiment = "high negative"
        THEN Append(with_clickbait, "high emotional language")
        ELSE with_clickbait

\* lines 130-140: l1.triggered_features is extended in place, then the
\* Layer1Result is built from l1
Enrich ==
    /\ pc = "enrich"
    /\ \E signals \in NlpSignals :
        l1' = [ l1 EXCEPT !.triggered_features = Enriched(@, signals) ]
    /\ pc' = "evidence"
    /\ UNCHANGED << settings, route, req_id, text_len, source_tier, nlp_cache,
                    tfidf_builds, xlmr_failed, model_tier, exc, articles_left,
                    evidence_failed, evidence_score, evidence_sources, scored,
                    l2_verdict, layer2, ml_credibility, multiplier,
                    domain_adjustment, final_score, result, persist, status >>
    /\ HistoryUnchanged /\ WritersUnchanged /\ ListingUnchanged /\ StanceUnchanged
    /\ FetchUnchanged /\ ModelsUnchanged

----------------------------------------------------------------------------
(* run_verification step 8: evidence retrieval, lines 142-204 *)

_EVIDENCE_DEFAULTS == [ t \in Tiers |-> CASE t = 1 -> 65 [] t = 2 -> 45
                                          [] t = 3 -> 50 [] t = 4 -> 25 ]

\* Mutant: the flat default of the earlier revision
EvidenceDefault_Flat(tier) == 50 * U

\* line 155
EvidenceDefault(tier) == IF tier = NoTier THEN 50 * U ELSE _EVIDENCE_DEFAULTS[tier] * U

\* lines 148-166: the defaults, then fetch_evidence when a key is configured
EvidenceStart ==
    /\ pc = "evidence"
    /\ evidence_score' = EvidenceDefault(source_tier)
    /\ evidence_sources' = << >>
    /\ scored' = << >>
    /\ l2_verdict' = "Unverified"
    /\ IF ~settings.news_api_key
       THEN /\ pc' = "fuse"
            /\ UNCHANGED << articles_left, evidence_failed >>
       ELSE \E fetch \in {"raise", "returns"}, n \in 0..MaxArticles :
            IF fetch = "raise"
            THEN /\ n = 0
                 /\ evidence_failed' = TRUE
                 /\ articles_left' = 0
                 /\ pc' = "fuse"
            ELSE /\ evidence_failed' = FALSE
                 /\ articles_left' = Min(n, 5)          \* articles[:5]
                 /\ pc' = "articles"
    /\ UNCHANGED << settings, route, req_id, text_len, source_tier, nlp_cache, tfidf_builds,
                    xlmr_failed, model_tier, l1, exc, layer2, ml_credibility,
                    multiplier, domain_adjustment, final_score, result,
                    persist, status >>
    /\ HistoryUnchanged /\ WritersUnchanged /\ ListingUnchanged /\ StanceUnchanged
    /\ FetchUnchanged /\ ModelsUnchanged

Similarities == {10, 70}       \* hundredths

\* lines 174-179
Stance(title_negative, sim) ==
    IF title_negative THEN "Refutes"
    ELSE IF sim > 60 THEN "Supports"
    ELSE "Not Enough Info"

\* The articles fetch_evidence returns: title and description as sequences of
\* words, the URL as the sequence of its parts
EngineArticles ==
    { [ title |-> << "hoax" >>, description |-> << >>,
        url |-> << "https", "www", "rappler.com", "nation", "x" >> ],
      [ title |-> << "rice" >>, description |-> << >>,
        url |-> << "https", "www", "rappler.com", "nation", "x" >> ] }

\* line 176: the words looked for in the lower-cased title
NegativeTitleWords ==
    { << "false" >>, << "fake" >>, << "hoax" >>, << "wrong" >>, << "debunked" >>,
      << "fact", "check" >> }

\* lines 174, 176: any(w in title_lower for w in [...])
TitleNegative(title) ==
    \E w \in NegativeTitleWords : Contains(LowerAll(title), w)

\* lines 167-189: one iteration of the loop.  art: the article; sim: what
\* compute_similarity returns for it; invalid: the article makes line 170 or
\* the EvidenceSource constructor raise (a null title, url or source name)
ScoreArticle ==
    /\ pc = "articles"
    /\ articles_left > 0
    /\ \E sim \in Similarities, art \in EngineArticles, invalid \in BOOLEAN :
        IF invalid
        THEN /\ sim = 10 /\ art.title = << "rice" >>
             /\ evidence_failed' = TRUE                  \* line 203
             /\ pc' = "fuse"
             /\ UNCHANGED << articles_left, evidence_sources, scored >>
        ELSE /\ evidence_sources' =
                    Append(evidence_sources,
                           [ similarity |-> sim,
                             stance |-> Stance(TitleNegative(art.title), sim) ])
             /\ scored' = Append(scored, art)
             /\ articles_left' = articles_left - 1
             /\ UNCHANGED << pc, evidence_failed >>
    /\ UNCHANGED << settings, route, req_id, text_len, source_tier, nlp_cache, tfidf_builds,
                    xlmr_failed, model_tier, l1, exc, evidence_score, l2_verdict,
                    layer2, ml_credibility, multiplier, domain_adjustment,
                    final_score, result, persist, status >>
    /\ HistoryUnchanged /\ WritersUnchanged /\ ListingUnchanged /\ StanceUnchanged
    /\ FetchUnchanged /\ ModelsUnchanged

RECURSIVE SumSimilarity(_)
SumSimilarity(srcs) ==
    IF srcs = << >> THEN 0
    ELSE Head(srcs).similarity + SumSimilarity(Tail(srcs))

CountStance(srcs, st) == Cardinality({ i \in DOMAIN srcs : srcs[i].stance = st })

\* lines 191-202, after the loop
Aggregate ==
    /\ pc = "articles"
    /\ articles_left = 0
    /\ IF evidence_sources # << >>
       THEN LET supporting == CountStance(evidence_sources, "Supports")
                refuting == CountStance(evidence_sources, "Refutes")
                avg_sim_100 == (SumSimilarity(evidence_sources) * U)
                                   \div Len(evidence_sources)
                refute_penalty == refuting * 15 * U
            IN  /\ evidence_score' = Max(0, Min(100 * U, avg_sim_100 - refute_penalty))
                /\ l2_verdict' = IF refuting > supporting THEN "Likely Fake"
                                 ELSE IF supporting >= 2 THEN "Credible"
                                 ELSE l2_verdict
       ELSE UNCHANGED << evidence_score, l2_verdict >>
    /\ pc' = "fuse"
    /\ UNCHANGED << settings, route, req_id, text_len, source_tier, nlp_cache, tfidf_builds,
                    xlmr_failed, model_tier, l1, exc, articles_left,
                    evidence_failed, evidence_sources, scored, layer2, ml_credibility,
                    multiplier, domain_adjustment, final_score, result,
                    persist, status >>
    /\ HistoryUnchanged /\ WritersUnchanged /\ ListingUnchanged /\ StanceUnchanged
    /\ FetchUnchanged /\ ModelsUnchanged

----------------------------------------------------------------------------
(* Lines 206-278: Layer2Result, final score, verdict, VerificationResponse *)

Fuse ==
    /\ pc = "fuse"
    /\ \E e2 \in Round1(evidence_score),
          fs \in FinalScores(settings, l1.verdict, l1.confidence,
                             evidence_score, source_tier) :
        /\ layer2' = [ verdict |-> l2_verdict, evidence_score |-> e2,
                       sources |-> evidence_sources ]
        /\ ml_credibility' = MlCredibility(l1.verdict, l1.confidence)
        /\ multiplier' = IF source_tier = NoTier THEN 0
                         ELSE Multiplier(source_tier, ml_credibility')
        /\ domain_adjustment' = DomainAdjustment(source_tier, ml_credibility')
        /\ final_score' = fs
        /\ result' = [ verdict |-> _map_verdict(settings, fs), final_score |-> fs,
                       layer1 |-> l1, layer2 |-> layer2' ]
    /\ pc' = "persist"
    /\ UNCHANGED << settings, route, req_id, text_len, source_tier, nlp_cache, tfidf_builds,
                    xlmr_failed, model_tier, l1, exc, articles_left,
                    evidence_failed, evidence_score, evidence_sources, scored,
                    l2_verdict, persist, status >>
    /\ HistoryUnchanged /\ WritersUnchanged /\ ListingUnchanged /\ StanceUnchanged
    /\ FetchUnchanged /\ ModelsUnchanged

----------------------------------------------------------------------------
(* run_verification lines 280-320: the persistence step *)

\* What one record_verification call can meet.  "ok": the file is read and
\* rewritten; "read_failed": _load_history_file caught an error and returned
\* [], the write succeeded; "write_failed": write_text raised and was caught
\* (the file is left as it was); "raise": records.append raised (the file
\* holds JSON that is not a list), after _HISTORY.append.
RecordOutcomes == {"ok", "read_failed", "write_failed", "raise"}

\* history.py lines 37-62, one call run to its end without interleaving
record_verification(h, entry, outcome) ==
    [ mem |-> Append(h.mem, entry),
      file |-> CASE outcome = "ok" -> Append(h.file, entry)
                 [] outcome = "read_failed" -> << entry >>
                 [] OTHER -> h.file ]

\* Mutant: lines 305-313 without the inner try of lines 314-318
PersistEnds_NoInnerTry(save, first, retry) ==
    IF retry = "raise" /\ (save = "raise" \/ first = "raise") THEN "raised" ELSE "returned"

\* Where run_verification is after lines 305-320: an exception of line 307 or
\* 311 is caught at line 312, one of the retry at line 317; line 320 returns
PersistEnds(save, first, retry) ==
    IF save = "raise" \/ first = "raise"
    THEN (IF retry = "raise" THEN "returned" ELSE "returned")
    ELSE "returned"

\* save: what save_verification did ("saved": True, "unavailable": False,
\* "raise": the import or the call raised); first: the record_verification
\* call of line 311; retry: the one of line 316
Persist ==
    /\ pc = "persist"
    /\ \E save \in {"saved", "unavailable", "raise"},
          first \in RecordOutcomes \cup {"none"},
          retry \in RecordOutcomes \cup {"none"} :
        LET h0 == [ mem |-> _HISTORY, file |-> history_file ]
            h1 == IF first = "none" THEN h0 ELSE record_verification(h0, req_id, first)
            h2 == IF retry = "none" THEN h1 ELSE record_verification(h1, req_id, retry)
        IN  /\ (first # "none") <=> (save = "unavailable")
            /\ (retry # "none") <=> (save = "raise" \/ first = "raise")
            /\ firestore' = IF save = "saved" THEN firestore \cup {req_id} ELSE firestore
            /\ _HISTORY' = h2.mem
            /\ history_file' = h2.file
            /\ persist' = [ save |-> save, first |-> first, retry |-> retry ]
            /\ pc' = PersistEnds(save, first, retry)
            /\ exc' = IF pc' = "raised" THEN "Exception" ELSE exc
    /\ UNCHANGED << settings, route, req_id, text_len, source_tier, nlp_cache, tfidf_builds,
                    xlmr_failed, model_tier, l1, articles_left, evidence_failed,
                    evidence_score, evidence_sources, scored, l2_verdict, layer2,
                    ml_credibility, multiplier, domain_adjustment, final_score,
                    result, status >>
    /\ WritersUnchanged /\ ListingUnchanged /\ StanceUnchanged
    /\ FetchUnchanged /\ ModelsUnchanged

----------------------------------------------------------------------------
(* The verify routes after run_verification                                *)
(* (verify.py lines 83-88, 114-125, 155-162, 195-202)                      *)

\* run_verification returned: processing_time_ms is assigned, then
\* extracted_text, which VerificationResponse (schemas.py lines 95-107) does
\* not declare: pydantic's BaseModel.__setattr__ raises ValueError, and the
\* handlers of the route turn it into an answer.  run_verification raised:
\* the handlers turn its exception into an answer.
Respond ==
    /\ pc \in {"returned", "raised"}
    /\ exc' = IF pc = "returned" THEN "ValueError" ELSE exc
    /\ status' = RouteStatus(route, exc')
    /\ pc' = "responded"
    /\ UNCHANGED << settings, route, req_id, text_len, source_tier, nlp_cache, tfidf_builds,
                    xlmr_failed, model_tier, l1, articles_left, evidence_failed,
                    evidence_score, evidence_sources, scored, l2_verdict, layer2,
                    ml_credibility, multiplier, domain_adjustment, final_score,
                    result, persist >>
    /\ HistoryUnchanged /\ WritersUnchanged /\ ListingUnchanged /\ StanceUnchanged
    /\ FetchUnchanged /\ ModelsUnchanged

\* The answer is sent and the handler returns: its locals are gone
Finish ==
    /\ pc = "responded"
    /\ pc' = "idle"
    /\ route' = "none"
    /\ text_len' = NoText
    /\ source_tier' = NoTier
    /\ exc' = "none"
    /\ status' = 0
    /\ LocalsReset
    /\ UNCHANGED << settings, req_id, nlp_cache, tfidf_builds >>
    /\ HistoryUnchanged /\ WritersUnchanged /\ ListingUnchanged /\ StanceUnchanged
    /\ FetchUnchanged /\ ModelsUnchanged

----------------------------------------------------------------------------
(* GET /history without a verdict filter, history.py lines 107-186, and the *)
(* readers of firebase_client.py lines 85-107 and 128-143                   *)

RECURSIVE Reverse(_)
Reverse(seq) ==
    IF seq = << >> THEN << >> ELSE Append(Reverse(Tail(seq)), Head(seq))

\* The documents of the collection ordered by timestamp, latest first (the
\* ids are given in the order of the requests)
RECURSIVE Descending(_)
Descending(ids) ==
    IF ids = {} THEN << >>
    ELSE LET m == CHOOSE x \in ids : \A y \in ids : y <= x
         IN  << m >> \o Descending(ids \ {m})

\* Mutant: the slice starts at page * limit
Paginate_FromNextPage(seq, page, limit) ==
    LET start == page * limit
    IN  SubSeq(seq, start + 1, Min(Len(seq), start + limit))

\* lines 147-148, 170-171 and firebase_client.py line 104: seq[start : start + limit]
Paginate(seq, page, limit) ==
    LET start == (page - 1) * limit
    IN  SubSeq(seq, start + 1, Min(Len(seq), start + limit))

Pages == {1, 2}
Limits == {1, 20}

\* fs_list: get_verifications reads the collection (otherwise it returns []);
\* fs_count: get_verification_count reads the count (otherwise it returns 0);
\* file_ok: _load_history_file reads the file (otherwise it returns []).
\* The handler changes no state of the service and its answer does not depend
\* on an earlier answer, so one GET between two verify requests shows every
\* answer that can be given there.
GetHistory ==
    /\ pc = "idle"
    /\ listing = NoListing
    /\ \E page \in Pages, limit \in Limits,
          fs_list \in BOOLEAN, fs_count \in BOOLEAN, file_ok \in BOOLEAN :
        LET entries_raw == IF fs_list
                           THEN Paginate(Descending(firestore), page, limit)
                           ELSE << >>
            total == IF fs_count THEN Cardinality(firestore) ELSE 0
            file_entries == IF file_ok THEN Reverse(history_file) ELSE << >>
            entries == Reverse(_HISTORY)
        IN  listing' =
                IF entries_raw # << >> \/ total > 0
                THEN [ tier |-> "firestore", at |-> req_id, page |-> page,
                       limit |-> limit, total |-> total, entries |-> entries_raw ]
                ELSE IF file_entries # << >>
                THEN [ tier |-> "file", at |-> req_id, page |-> page,
                       limit |-> limit, total |-> Len(file_entries),
                       entries |-> Paginate(file_entries, page, limit) ]
                ELSE [ tier |-> "memory", at |-> req_id, page |-> page,
                       limit |-> limit, total |-> Len(entries),
                       entries |-> Paginate(entries, page, limit) ]
    /\ UNCHANGED << settings, pc, route, req_id, text_len, source_tier, nlp_cache,
                    tfidf_builds, xlmr_failed, model_tier, l1, exc, articles_left,
                    evidence_failed, evidence_score, evidence_sources, scored,
                    l2_verdict, layer2, ml_credibility, multiplier,
                    domain_adjustment, final_score, result, persist, status >>
    /\ HistoryUnchanged /\ WritersUnchanged /\ StanceUnchanged
    /\ FetchUnchanged /\ ModelsUnchanged

----------------------------------------------------------------------------
(* The service: requests served one after the other *)

\* No request is being served
RequestIdle ==
    /\ pc = "idle"
    /\ route = "none"
    /\ req_id = 0
    /\ text_len = NoText
    /\ source_tier = NoTier
    /\ xlmr_failed = FALSE
    /\ model_tier = "none"
    /\ l1 = NoL1
    /\ exc = "none"
    /\ articles_left = 0
    /\ evidence_failed = FALSE
    /\ evidence_score = 0
    /\ evidence_sources = << >>
    /\ scored = << >>
    /\ l2_verdict = "none"
    /\ layer2 = NoLayer2
    /\ ml_credibility = 0
    /\ multiplier = 0
    /\ domain_adjustment = 0
    /\ final_score = 0
    /\ result = NoResult
    /\ persist = NoPersist
    /\ status = 0

\* No record_verification call runs on another thread
WritersIdle ==
    /\ file_lock = 0
    /\ file_before = history_file
    /\ wpc = [ w \in Writers |-> "idle" ]
    /\ records = [ w \in Writers |-> << >> ]
    /\ io_failed = {}

\* The process after the modules are imported (engine.py lines 26, 36;
\* history.py lines 24, 52; firebase_client.py line 23), with no history yet
Init ==
    /\ settings \in { WithKey(DefaultSettings, k) : k \in BOOLEAN }
    /\ RequestIdle
    /\ nlp_cache = {}
    /\ tfidf_builds = 0
    /\ firestore = {}
    /\ _HISTORY = << >>
    /\ history_file = << >>
    /\ WritersIdle
    /\ listing = NoListing
    /\ StanceIdle
    /\ FetchIdle
    /\ ModelsIdle

Next ==
    \/ \E r \in Routes : Receive(r)
    \/ Layer1
    \/ Enrich
    \/ EvidenceStart
    \/ ScoreArticle
    \/ Aggregate
    \/ Fuse
    \/ Persist
    \/ Respond
    \/ Finish
    \/ GetHistory

Spec == Init /\ [][Next]_vars

----------------------------------------------------------------------------
(* The fusion as a function of its inputs: every state at the start of     *)
(* step 9, with the confidence and the evidence score on a grid            *)

Grid == { (i * 1000) \div ConfGrid : i \in 0..ConfGrid }
Confidences == Grid \cup {200, 800, 873}

\* The evidence scores: the grid and the defaults of line 155 that are not 50
EvidenceScores == Grid \cup {250, 450, 650}

InitFuse ==
    /\ settings \in SettingsSet
    /\ pc = "fuse"
    /\ source_tier \in Tiers \cup {NoTier}
    /\ route = IF source_tier = NoTier THEN "text" ELSE "url"
    /\ req_id = 1
    /\ text_len = MinLength(route)
    /\ nlp_cache = {"xlmr_classifier"}
    /\ tfidf_builds = 0
    /\ xlmr_failed = FALSE
    /\ model_tier = "xlmr"
    /\ l1 \in [ verdict : Verdicts, confidence : Confidences,
               triggered_features : { ClassifierFeatures } ]
    /\ exc = "none"
    /\ articles_left = 0
    /\ evidence_failed = FALSE
    /\ evidence_score \in { g * TenthU : g \in EvidenceScores }
    /\ evidence_sources = << >>
    /\ scored = << >>
    /\ l2_verdict = "Unverified"
    /\ layer2 = NoLayer2
    /\ ml_credibility = 0
    /\ multiplier = 0
    /\ domain_adjustment = 0
    /\ final_score = 0
    /\ result = NoResult
    /\ persist = NoPersist
    /\ status = 0
    /\ firestore = {}
    /\ _HISTORY = << >>
    /\ history_file = << >>
    /\ WritersIdle
    /\ listing = NoListing
    /\ StanceIdle
    /\ FetchIdle
    /\ ModelsIdle

NextFuse == Fuse

SpecFuse == InitFuse /\ [][NextFuse]_vars

----------------------------------------------------------------------------
(* Concurrent record_verification calls, history.py lines 24-62: writer w   *)
(* appends the entry w.  The steps of one call are the points where another *)
(* thread can run.                                                          *)

RequestUnchanged ==
    UNCHANGED << settings, pc, route, req_id, text_len, source_tier, nlp_cache, tfidf_builds,
                 xlmr_failed, model_tier, l1, exc, articles_left, evidence_failed,
                 evidence_score, evidence_sources, scored, l2_verdict, layer2,
                 ml_credibility, multiplier, domain_adjustment, final_score,
                 result, persist, status, firestore, listing >>

\* line 61: _HISTORY.append(entry)
AppendMemory(w) ==
    /\ wpc[w] = "start"
    /\ _HISTORY' = Append(_HISTORY, w)
    /\ wpc' = [ wpc EXCEPT ![w] = "lock" ]
    /\ UNCHANGED << history_file, file_lock, file_before, records, io_failed >>
    /\ RequestUnchanged /\ StanceUnchanged
    /\ FetchUnchanged /\ ModelsUnchanged

\* Mutant: the critical section is entered without waiting for the lock
Lock_NoWait(w) ==
    /\ wpc[w] = "lock"
    /\ file_lock' = w
    /\ wpc' = [ wpc EXCEPT ![w] = "load" ]
    /\ UNCHANGED << _HISTORY, history_file, file_before, records, io_failed >>
    /\ RequestUnchanged /\ StanceUnchanged
    /\ FetchUnchanged /\ ModelsUnchanged

\* line 39: with _file_lock
Lock(w) ==
    /\ wpc[w] = "lock"
    /\ file_lock = 0
    /\ file_lock' = w
    /\ wpc' = [ wpc EXCEPT ![w] = "load" ]
    /\ UNCHANGED << _HISTORY, history_file, file_before, records, io_failed >>
    /\ RequestUnchanged /\ StanceUnchanged
    /\ FetchUnchanged /\ ModelsUnchanged

\* line 40 (lines 27-34): records = _load_history_file(); [] when the read fails
Load(w) ==
    /\ wpc[w] = "load"
    /\ \E ok \in BOOLEAN :
        /\ records' = [ records EXCEPT ![w] = IF ok THEN history_file ELSE << >> ]
        /\ io_failed' = IF ok THEN io_failed ELSE io_failed \cup {w}
    /\ wpc' = [ wpc EXCEPT ![w] = "write" ]
    /\ UNCHANGED << _HISTORY, history_file, file_lock, file_before >>
    /\ RequestUnchanged /\ StanceUnchanged
    /\ FetchUnchanged /\ ModelsUnchanged

\* lines 41-48: records.append(entry), write_text (a failure is caught and
\* leaves the file as it was), and the end of the with block
Write(w) ==
    /\ wpc[w] = "write"
    /\ \E ok \in BOOLEAN :
        /\ history_file' = IF ok THEN Append(records[w], w) ELSE history_file
        /\ io_failed' = IF ok THEN io_failed ELSE io_failed \cup {w}
    /\ records' = [ records EXCEPT ![w] = Append(records[w], w) ]
    /\ file_lock' = 0
    /\ wpc' = [ wpc EXCEPT ![w] = "done" ]
    /\ UNCHANGED << _HISTORY, file_before >>
    /\ RequestUnchanged /\ StanceUnchanged
    /\ FetchUnchanged /\ ModelsUnchanged

\* Every writer is about to call record_verification; the file holds what an
\* earlier run of the service left
InitHist ==
    /\ settings = WithKey(DefaultSettings, FALSE)
    /\ RequestIdle
    /\ nlp_cache = {}
    /\ tfidf_builds = 0
    /\ firestore = {}
    /\ _HISTORY = << >>
    /\ history_file \in { << >>, << 0 >> }
    /\ file_lock = 0
    /\ file_before = history_file
    /\ wpc = [ w \in Writers |-> "start" ]
    /\ records = [ w \in Writers |-> << >> ]
    /\ io_failed = {}
    /\ listing = NoListing
    /\ StanceIdle
    /\ FetchIdle
    /\ ModelsIdle

NextHist ==
    \/ \E w \in Writers : AppendMemory(w)
    \/ \E w \in Writers : Lock(w)
    \/ \E w \in Writers : Load(w)
    \/ \E w \in Writers : Write(w)

SpecHist == InitHist /\ [][NextHist]_vars

----------------------------------------------------------------------------
(* evidence/stance_detector.py, detect_stance.  A text is the sequence of   *)
(* its words, separated by single blanks; a URL is the sequence of its      *)
(* parts (scheme, host labels, path segments); a keyword pattern is the set *)
(* of the word sequences it matches; a similarity is in hundredths, a       *)
(* confidence in hundredths.                                                *)

MaxTitle == 1           \* words of a title made of any words of Words
MaxDescription == 1     \* words of an article description

\* lines 31-40
_REFUTATION_KEYWORDS ==
    << { << "factcheck" >>, << "fact", "check" >> }, { << "false" >> },
       { << "fake" >> }, { << "hoax" >> }, { << "debunked" >> },
       { << "misinformation" >> }, { << "disinformation" >> },
       { << "not", "true" >> }, { << "no", "evidence" >> }, { << "unverified" >> },
       { << "correction" >> }, { << "retract" >> }, { << "wrong" >> },
       { << "denied" >> }, { << "scam" >> }, { << "satire" >> },
       { << "kasinungalingan" >> }, { << "hindi", "totoo" >> }, { << "peke" >> } >>

\* lines 42-48
_SUPPORT_KEYWORDS ==
    << { << "confirmed" >> }, { << "verified" >> }, { << "official" >> },
       { << "proven" >> }, { << "true" >> }, { << "legitimate" >> },
       { << "accurate" >> }, { << "authorized" >> }, { << "real" >> },
       { << "genuine" >> }, { << "totoo" >> }, { << "kumpirmado" >> },
       { << "opisyal" >> } >>

\* lines 51-54
_FACTCHECK_DOMAINS ==
    { << "vera-files.org" >>, << "verafiles.org" >>, << "factcheck.afp.com" >>,
      << "rappler.com", "newsbreak", "fact-check" >>, << "cnn.ph", "fact-check" >> }

_SIMILARITY_NEI_THRESHOLD == 15
_SIMILARITY_SUPPORT_THRESHOLD == 35

\* match.group(0) of re.search(pattern, text): the leftmost match
Group0(text, pattern) ==
    CHOOSE ph \in pattern :
        /\ Contains(text, ph)
        /\ \A other \in pattern : \A j \in Positions(text, other) :
               \E i \in Positions(text, ph) : i <= j

\* lines 144-151
RECURSIVE _scan_keywords(_, _)
_scan_keywords(text, patterns) ==
    IF patterns = << >> THEN << >>
    ELSE LET pattern == Head(patterns)
             rest == _scan_keywords(text, Tail(patterns))
         IN  IF \E ph \in pattern : Contains(text, ph)
             THEN << Group0(text, pattern) >> \o rest
             ELSE rest

\* Mutant: the floor includes the threshold
BelowFloor_Inclusive(similarity) == similarity <= _SIMILARITY_NEI_THRESHOLD

\* line 105
BelowFloor(similarity) == similarity < _SIMILARITY_NEI_THRESHOLD

\* Mutant: the cap of the support rule
RefutesConfidence_Cap90(n) == Min(90, 65 + n * 10)

\* lines 116, 119: round(min(0.95, 0.65 + n * 0.10), 2)
RefutesConfidence(n) == Min(95, 65 + n * 10)

\* Mutant: the similarity does not enter the confidence
SupportsConfidence_NoSimilarity(n, similarity) ==
    (Min(900, 500 + n * 100) + 5) \div 10

\* lines 127, 130: round(min(0.90, 0.50 + n * 0.10 + similarity * 0.20), 2),
\* computed in thousandths (never half way between two hundredths)
SupportsConfidence(n, similarity) ==
    (Min(900, 500 + n * 100 + similarity * 2) + 5) \div 10

\* Mutant: the fact-check rule comes after the similarity floor
detect_stance_FloorFirst(a) ==
    LET article_text == LowerAll(a.title \o a.description)
        fc == { d \in _FACTCHECK_DOMAINS : Contains(LowerAll(a.url), d) }
        refutation_hits == _scan_keywords(article_text, _REFUTATION_KEYWORDS)
        support_hits == _scan_keywords(article_text, _SUPPORT_KEYWORDS)
    IN  IF BelowFloor(a.similarity)
        THEN [ stance |-> "Not Enough Info", confidence |-> 80,
               matched_keywords |-> << >> ]
        ELSE IF a.url # << >> /\ fc # {}
        THEN [ stance |-> "Refutes", confidence |-> 90,
               matched_keywords |-> << CHOOSE d \in fc : TRUE >> ]
        ELSE IF refutation_hits # << >>
        THEN [ stance |-> "Refutes",
               confidence |-> RefutesConfidence(Len(refutation_hits)),
               matched_keywords |-> refutation_hits ]
        ELSE IF support_hits # << >> /\ a.similarity >= _SIMILARITY_SUPPORT_THRESHOLD
        THEN [ stance |-> "Supports",
               confidence |-> SupportsConfidence(Len(support_hits), a.similarity),
               matched_keywords |-> support_hits ]
        ELSE [ stance |-> "Not Enough Info", confidence |-> 70,
               matched_keywords |-> << >> ]

\* lines 70-141.  Line 95 iterates a set: when several fact-check domains
\* occur in the URL, which one is reported depends on the iteration order
detect_stance(a) ==
    LET article_text == LowerAll(a.title \o a.description)
        fc == { d \in _FACTCHECK_DOMAINS : Contains(LowerAll(a.url), d) }
        refutation_hits == _scan_keywords(article_text, _REFUTATION_KEYWORDS)
        support_hits == _scan_keywords(article_text, _SUPPORT_KEYWORDS)
    IN  IF a.url # << >> /\ fc # {}
        THEN [ stance |-> "Refutes", confidence |-> 90,
               matched_keywords |-> << CHOOSE d \in fc : TRUE >> ]
        ELSE IF BelowFloor(a.similarity)
        THEN [ stance |-> "Not Enough Info", confidence |-> 80,
               matched_keywords |-> << >> ]
        ELSE IF refutation_hits # << >>
        THEN [ stance |-> "Refutes",
               confidence |-> RefutesConfidence(Len(refutation_hits)),
               matched_keywords |-> refutation_hits ]
        ELSE IF support_hits # << >> /\ a.similarity >= _SIMILARITY_SUPPORT_THRESHOLD
        THEN [ stance |-> "Supports",
               confidence |-> SupportsConfidence(Len(support_hits), a.similarity),
               matched_keywords |-> support_hits ]
        ELSE [ stance |-> "Not Enough Info", confidence |-> 70,
               matched_keywords |-> << >> ]

\* The words of the modelled titles and descriptions
Words == { "FALSE", "fake", "unverified", "hindi", "totoo", "Confirmed" }

RECURSIVE Texts(_)
Texts(n) ==
    IF n = 0 THEN { << >> }
    ELSE LET shorter == Texts(n - 1)
         IN  shorter \cup { Append(t, w) : t \in shorter, w \in Words }

\* Longer titles: the one of test_refutation_keywords_trigger_refutes
\* (tests/test_philverify.py line 275), five refutation keywords, five
\* support keywords
LongTitles ==
    { << "fact", "check", "FALSE", "no", "free", "rice", "distribution", "was",
         "authorized" >>,
      << "FALSE", "fake", "hoax", "scam", "satire" >>,
      << "Confirmed", "official", "true", "real", "genuine" >> }

Urls ==
    { << >>,
      << "https", "vera-files.org", "fact-check", "123" >>,
      << "https", "www", "rappler.com", "newsbreak", "fact-check", "x" >>,
      << "https", "www", "rappler.com", "nation", "x" >>,
      << "HTTPS", "VERAFILES.ORG", "x" >> }

StanceSimilarities == { 0, 14, 15, 34, 35, 36, 100 }

Articles ==
    [ title : Texts(MaxTitle) \cup LongTitles, description : Texts(MaxDescription),
      url : Urls, similarity : StanceSimilarities ]

\* The call detect_stance(claim, title, description, url, similarity)
DetectStance ==
    /\ article # NoArticle
    /\ stance_result = NoStanceResult
    /\ stance_result' = detect_stance(article)
    /\ UNCHANGED << article, stances, similarities, aggregate >>
    /\ RequestUnchanged /\ HistoryUnchanged /\ WritersUnchanged
    /\ FetchUnchanged /\ ModelsUnchanged

InitStance ==
    /\ settings = WithKey(DefaultSettings, FALSE)
    /\ RequestIdle
    /\ nlp_cache = {}
    /\ tfidf_builds = 0
    /\ firestore = {}
    /\ _HISTORY = << >>
    /\ history_file = << >>
    /\ WritersIdle
    /\ listing = NoListing
    /\ article \in Articles
    /\ stance_result = NoStanceResult
    /\ stances = << >>
    /\ similarities = << >>
    /\ aggregate = NoAggregate
    /\ FetchIdle
    /\ ModelsIdle

NextStance == DetectStance

SpecStance == InitStance /\ [][NextStance]_vars

----------------------------------------------------------------------------
(* evidence/stance_detector.py, compute_evidence_score.  The unrounded     *)
(* score is in 1/U points.                                                  *)

MaxStances == 5         \* entries of the stances argument

\* Mutant: a missing similarity counts as 0
SimilarityAt_Zero(sims, i) == IF i <= Len(sims) THEN sims[i] ELSE 0

\* line 179: similarities[i] if i < len(similarities) else 0.5
SimilarityAt(sims, i) == IF i <= Len(sims) THEN sims[i] ELSE 50

\* Mutant: the bonus is centred on similarity 0.5
SupportBonus_Centered(sim) == (10 * sim - 500) * (U \div 100)

\* line 181: 10.0 * (0.5 + sim)
SupportBonus(sim) == (500 + 10 * sim) * (U \div 100)

\* line 183: 15.0 * stance.confidence
RefutePenalty(confidence) == 15 * confidence * (U \div 100)

\* lines 178-183: what entry i adds to the score (nothing is added for a
\* Not Enough Info entry)
Term(st, sims, i) ==
    CASE st[i].stance = "Supports" -> SupportBonus(SimilarityAt(sims, i))
      [] st[i].stance = "Refutes" -> 0 - RefutePenalty(st[i].confidence)
      [] OTHER -> 0

\* lines 174, 178-183: the score after the entries i, i+1, ... were added to acc
RECURSIVE ScoreLoop(_, _, _, _)
ScoreLoop(st, sims, i, acc) ==
    IF i > Len(st) THEN acc
    ELSE ScoreLoop(st, sims, i + 1, acc + Term(st, sims, i))

\* The additions of the loop, in their order
Additions(st, sims) ==
    SelectSeq([ i \in DOMAIN st |-> Term(st, sims, i) ], LAMBDA t : t # 0)

\* A term the float holds exactly: a multiple of 1/16 (5.0, 15.0, and 13.5 and
\* 14.25, the exact products of 15.0 and the floats nearest 0.9 and 0.95);
\* 10.0 * (0.5 + 0.91) is 14.100000000000001
ExactTerm(t) == t % (U \div 16) = 0

\* line 185: round(x, 1) of the float sum.  A sum of exact terms is exact, and
\* half way between two tenths it goes to the even one; a sum with an inexact
\* term lies next to the exact value, on a side that depends on the order of
\* the additions: half way, either tenth can come out
RoundScore(terms, x) ==
    LET q == x \div TenthU
    IN  IF 2 * (x % TenthU) = TenthU /\ \A i \in DOMAIN terms : ExactTerm(terms[i])
        THEN { IF q % 2 = 0 THEN q ELSE q + 1 }
        ELSE Round1(x)

\* Mutant: a tie of the counts is Likely Fake
EvidenceVerdict_TieIsFake(supporting, refuting, score) ==
    IF refuting >= supporting THEN "Likely Fake"
    ELSE IF supporting >= 2 /\ score >= 600 THEN "Credible"
    ELSE "Unverified"

\* lines 187-192, score in tenths
EvidenceVerdict(supporting, refuting, score) ==
    IF refuting > supporting THEN "Likely Fake"
    ELSE IF supporting >= 2 /\ score >= 600 THEN "Credible"
    ELSE "Unverified"

\* lines 154-194: the (score, verdict) pairs the call can return
compute_evidence_score(st, sims) ==
    IF st = << >> THEN { [ score |-> 500, verdict |-> "Unverified" ] }
    ELSE LET score == ScoreLoop(st, sims, 1, 50 * U)
             supporting == CountStance(st, "Supports")
             refuting == CountStance(st, "Refutes")
         IN  { [ score |-> r, verdict |-> EvidenceVerdict(supporting, refuting, r) ] :
                 r \in RoundScore(Additions(st, sims), Max(0, Min(100 * U, score))) }

\* The StanceResult entries and the similarities of the modelled calls
StanceEntries ==
    { [ stance |-> "Supports", confidence |-> 67 ],
      [ stance |-> "Refutes", confidence |-> 90 ],
      [ stance |-> "Refutes", confidence |-> 95 ],
      [ stance |-> "Not Enough Info", confidence |-> 70 ] }

EvidenceSimilarities == { 0, 91, 100 }

\* The call compute_evidence_score([], [])
ScoreEmpty ==
    /\ aggregate = NoAggregate
    /\ stances = << >>
    /\ aggregate' \in compute_evidence_score(stances, similarities)
    /\ UNCHANGED << article, stance_result, stances, similarities >>
    /\ RequestUnchanged /\ HistoryUnchanged /\ WritersUnchanged
    /\ FetchUnchanged /\ ModelsUnchanged

\* The call with one more entry at the end of stances and, if given (and
\* every earlier entry has one), its similarity at the end of similarities
ScoreOneMore ==
    /\ aggregate # NoAggregate
    /\ Len(stances) < MaxStances
    /\ \E entry \in StanceEntries, sim \in EvidenceSimilarities, given \in BOOLEAN :
        /\ given => Len(similarities) = Len(stances)
        /\ (~given \/ entry.stance # "Supports") => sim = 0
        /\ stances' = Append(stances, entry)
        /\ similarities' = IF given THEN Append(similarities, sim) ELSE similarities
        /\ aggregate' \in compute_evidence_score(stances', similarities')
    /\ UNCHANGED << article, stance_result >>
    /\ RequestUnchanged /\ HistoryUnchanged /\ WritersUnchanged
    /\ FetchUnchanged /\ ModelsUnchanged

\* seq with its entries i and i + 1 exchanged
Swap(seq, i) ==
    [ j \in DOMAIN seq |-> IF j = i THEN seq[i + 1]
                           ELSE IF j = i + 1 THEN seq[i] ELSE seq[j] ]

\* The call with the same entries in another order: two neighbours exchanged
\* in stances and in similarities (of equal length).  The same additions in
\* the same order give the same float; otherwise the sum of line 174 is added
\* up in another order
ScorePermuted ==
    /\ aggregate # NoAggregate
    /\ Len(similarities) = Len(stances)
    /\ \E i \in 1..(Len(stances) - 1) :
        /\ stances' = Swap(stances, i)
        /\ similarities' = Swap(similarities, i)
        /\ << stances', similarities' >> # << stances, similarities >>
        /\ IF Additions(stances', similarities') = Additions(stances, similarities)
           THEN aggregate' = aggregate
           ELSE aggregate' \in compute_evidence_score(stances', similarities')
    /\ UNCHANGED << article, stance_result >>
    /\ RequestUnchanged /\ HistoryUnchanged /\ WritersUnchanged
    /\ FetchUnchanged /\ ModelsUnchanged

InitEvidence ==
    /\ settings = WithKey(DefaultSettings, FALSE)
    /\ RequestIdle
    /\ nlp_cache = {}
    /\ tfidf_builds = 0
    /\ firestore = {}
    /\ _HISTORY = << >>
    /\ history_file = << >>
    /\ WritersIdle
    /\ listing = NoListing
    /\ StanceIdle
    /\ FetchIdle
    /\ ModelsIdle

NextEvidence == ScoreEmpty \/ ScoreOneMore \/ ScorePermuted

SpecEvidence == InitEvidence /\ [][NextEvidence]_vars

----------------------------------------------------------------------------
(* evidence/news_fetcher.py: the merge of fetch_evidence, lines 272-297.    *)
(* An article is the record of its title, its URL and the name of its       *)
(* source; the URL is the sequence of the labels of its host (the           *)
(* registered domain is one label, no host is the empty sequence), a name   *)
(* the sequence of its words.                                               *)

Art(title, url, name) == [ title |-> title, url |-> url, source |-> name ]

\* lines 87-94: the hostname urlparse gives, in lower case, without a
\* leading "www."
_extract_domain(url) ==
    LET host == LowerAll(url)
    IN  IF host # << >> /\ Head(host) = "www" THEN Tail(host) ELSE host

_PH_DOMAINS ==
    { << "rappler.com" >>, << "inquirer.net" >>, << "gmanetwork.com" >>,
      << "philstar.com" >>, << "manilatimes.net" >>, << "mb.com.ph" >>,
      << "abs-cbn.com" >>, << "cnnphilippines.com" >>, << "pna.gov.ph" >>,
      << "sunstar.com.ph" >>, << "businessmirror.com.ph" >>,
      << "businessworld.com.ph" >>, << "malaya.com.ph" >>,
      << "marikina.gov.ph" >>, << "verafiles.org" >>, << "pcij.org" >>,
      << "interaksyon", "philstar.com" >> }

_PH_SOURCE_KEYWORDS ==
    { << "rappler" >>, << "inquirer" >>, << "gma" >>, << "abs-cbn" >>,
      << "cnn", "philippines" >>, << "philstar" >>, << "manila", "times" >>,
      << "manila", "bulletin" >>, << "sunstar" >>, << "businessworld" >>,
      << "business", "mirror" >>, << "malaya" >>,
      << "philippine", "news", "agency" >>, << "pna" >>, << "vera", "files" >>,
      << "pcij" >>, << "interaksyon" >> }

\* lines 97-113
_is_ph_article(art) ==
    \/ _extract_domain(art.url) \in _PH_DOMAINS
    \/ \E kw \in _PH_SOURCE_KEYWORDS : Contains(LowerAll(art.source), kw)

\* lines 280-281: the domain, or the source name when there is no domain or
\* the domain is one of google.com
dedup_key(art) ==
    LET domain == _extract_domain(art.url)
    IN  IF domain # << >> /\ ~Contains(domain, << "google.com" >>)
        THEN domain
        ELSE art.source

\* lines 276-286: _add(articles) on the pair of seen_domains and merged
RECURSIVE _add(_, _)
_add(acc, articles) ==
    IF articles = << >> THEN acc
    ELSE LET art == Head(articles)
             key == dedup_key(art)
         IN  IF key # << >> /\ key \in acc.seen_domains
             THEN _add(acc, Tail(articles))
             ELSE _add([ seen_domains |-> IF key # << >>
                                          THEN acc.seen_domains \cup {key}
                                          ELSE acc.seen_domains,
                         merged |-> Append(acc.merged, art) ],
                       Tail(articles))

\* Mutant: the Google News articles are added in the order they came
Merge_GnewsFirst(gnews_articles, newsapi_articles, max_results) ==
    LET all == _add(_add([ seen_domains |-> {}, merged |-> << >> ],
                         gnews_articles), newsapi_articles).merged
    IN  SubSeq(all, 1, Min(max_results, Len(all)))

\* lines 272-297: the result of fetch_evidence from the two source lists
Merge(gnews_articles, newsapi_articles, max_results) ==
    LET ph_gnews == SelectSeq(gnews_articles, _is_ph_article)
        other_gnews == SelectSeq(gnews_articles,
                                 LAMBDA art : ~_is_ph_article(art))
        empty == [ seen_domains |-> {}, merged |-> << >> ]
        all == _add(_add(_add(empty, ph_gnews), newsapi_articles),
                    other_gnews).merged
    IN  SubSeq(all, 1, Min(max_results, Len(all)))

\* Articles the sources can give: Google News items link to a redirect of
\* news.google.com (or to the outlet) and name their source; NewsAPI items
\* link to the outlet; an item can lack both link and name
GnewsArticles ==
    { Art("a", << "news", "google.com" >>, << "GMA", "Network" >>),
      Art("b", << "news", "google.com" >>, << "GMA", "Network" >>),
      Art("c", << "news", "google.com" >>, << "BBC" >>),
      Art("d", << "www", "rappler.com" >>, << "Rappler" >>) }
NewsapiArticles ==
    { Art("d", << "www", "rappler.com" >>, << "Rappler" >>),
      Art("e", << "rappler.com" >>, << "Rappler" >>),
      Art("f", << "www", "bbc.com" >>, << "BBC" >>),
      Art("g", << >>, << >>) }

RECURSIVE ListsUpTo(_, _)
ListsUpTo(S, n) ==
    IF n = 0 THEN { << >> }
    ELSE LET shorter == ListsUpTo(S, n - 1)
         IN  shorter \cup { Append(l, x) : l \in shorter, x \in S }

InitMerge ==
    /\ settings = WithKey(DefaultSettings, FALSE)
    /\ RequestIdle
    /\ nlp_cache = {}
    /\ tfidf_builds = 0
    /\ firestore = {}
    /\ _HISTORY = << >>
    /\ history_file = << >>
    /\ WritersIdle
    /\ listing = NoListing
    /\ StanceIdle
    /\ now = 0
    /\ cache_files = [ p \in Prefixes |-> NoFile ]
    /\ cache_saved = [ p \in Prefixes |-> [ data |-> << >>, write |-> "none" ] ]
    /\ fetches = [ c \in Calls |-> NoFetch ]
    /\ merge_in \in [ gnews_articles : ListsUpTo(GnewsArticles, MaxFetched),
                      newsapi_articles : ListsUpTo(NewsapiArticles, MaxFetched),
                      max_results : {1, 2, 5} ]
    /\ merged = [ done |-> FALSE, articles |-> << >> ]
    /\ ModelsIdle

\* The merge of one pair of source lists
MergeLists ==
    /\ ~merged.done
    /\ merged' = [ done |-> TRUE,
                   articles |-> Merge(merge_in.gnews_articles,
                                      merge_in.newsapi_articles,
                                      merge_in.max_results) ]
    /\ UNCHANGED << now, cache_files, cache_saved, fetches, merge_in >>
    /\ RequestUnchanged /\ HistoryUnchanged /\ WritersUnchanged
    /\ ListingUnchanged /\ StanceUnchanged /\ ModelsUnchanged

\* The lists are merged anew
MergeAgain ==
    /\ merged.done
    /\ merged' = [ done |-> FALSE, articles |-> << >> ]
    /\ UNCHANGED << now, cache_files, cache_saved, fetches, merge_in >>
    /\ RequestUnchanged /\ HistoryUnchanged /\ WritersUnchanged
    /\ ListingUnchanged /\ StanceUnchanged /\ ModelsUnchanged

NextMerge == MergeLists \/ MergeAgain

SpecMerge == InitMerge /\ [][NextMerge]_vars

----------------------------------------------------------------------------
(* evidence/news_fetcher.py: the cache files and concurrent fetch_evidence  *)
(* calls for one query, lines 65-84 and 231-302.  The calls are coroutines  *)
(* of one event loop (main.py line 121): a call runs alone from one await   *)
(* to the next, and only _fetch_gnews_rss and _fetch_newsapi run on a       *)
(* thread of the executor.                                                  *)

\* Mutant: an empty stored list counts as a miss
_load_cache_EmptyIsMiss(file) ==
    IF file.exists /\ file.valid /\ file.data # << >>
    THEN [ hit |-> TRUE, data |-> file.data ]
    ELSE [ hit |-> FALSE, data |-> << >> ]

\* lines 69-76: the list, or None (hit is FALSE) when the path does not exist
\* or its text is not JSON
_load_cache(file) ==
    IF file.exists /\ file.valid
    THEN [ hit |-> TRUE, data |-> file.data ]
    ELSE [ hit |-> FALSE, data |-> << >> ]

\* What path.write_text does: it completes, it raises before the file is
\* opened, or it raises after the file was truncated
Writes == {"ok", "not_opened", "partial"}

\* Mutant: a file that is there is not written again
_save_cache_KeepFirst(file, data, write, t) ==
    IF file.exists THEN file
    ELSE CASE write = "ok" ->
                [ exists |-> TRUE, valid |-> TRUE, data |-> data, at |-> t ]
           [] write = "partial" ->
                [ exists |-> TRUE, valid |-> FALSE, data |-> << >>, at |-> t ]
           [] OTHER -> file

\* lines 79-84: the file after _save_cache(key, data) at time t; the text of
\* a write that did not complete is a proper prefix of the JSON of a list,
\* which json.loads rejects
_save_cache(file, data, write, t) ==
    CASE write = "ok" ->
            [ exists |-> TRUE, valid |-> TRUE, data |-> data, at |-> t ]
      [] write = "partial" ->
            [ exists |-> TRUE, valid |-> FALSE, data |-> << >>, at |-> t ]
      [] OTHER -> file

\* What the sources answer for the query when they do not raise
GnewsAnswers ==
    { << Art("c", << "news", "google.com" >>, << "BBC" >>),
         Art("a", << "news", "google.com" >>, << "GMA", "Network" >>) >> }
NewsapiAnswers ==
    { << Art("d", << "www", "rappler.com" >>, << "Rappler" >>) >> }

\* line 235
DefaultMaxResults == 5

\* lines 272-302: the call returns the merge of its two lists
Returned(f) ==
    [ f EXCEPT !.pc = "done",
               !.merged = Merge(f.gnews_articles, f.newsapi_articles,
                                DefaultMaxResults) ]

\* lines 257-269: the call f, which holds its gnews_articles, goes on: with no
\* api_key newsapi_articles is empty, a cache hit gives the stored list, and
\* on a miss the call awaits _fetch_newsapi
NewsapiPart(f, api_key, file) ==
    IF ~api_key THEN Returned(f)
    ELSE LET got == _load_cache(file)
         IN  IF got.hit
             THEN Returned([ f EXCEPT !.newsapi_articles = got.data,
                                      !.newsapi = [ from |-> "cache" ] ])
             ELSE [ f EXCEPT !.pc = "await_newsapi" ]

InitFetch ==
    /\ settings \in { WithKey(DefaultSettings, k) : k \in BOOLEAN }
    /\ RequestIdle
    /\ nlp_cache = {}
    /\ tfidf_builds = 0
    /\ firestore = {}
    /\ _HISTORY = << >>
    /\ history_file = << >>
    /\ WritersIdle
    /\ listing = NoListing
    /\ StanceIdle
    /\ FetchIdle
    /\ ModelsIdle

OthersUnchanged ==
    /\ RequestUnchanged /\ HistoryUnchanged /\ WritersUnchanged
    /\ ListingUnchanged /\ StanceUnchanged /\ ModelsUnchanged
    /\ UNCHANGED << merge_in, merged >>

\* lines 246-256: the call c starts: it loads the Google News list from the
\* cache and, on a miss, awaits _fetch_gnews_rss
StartFetch(c) ==
    /\ fetches[c].pc = "idle"
    /\ LET got == _load_cache(cache_files["gnews"])
           f == [ fetches[c] EXCEPT
                    !.gnews_articles = got.data,
                    !.gnews = [ from |-> "cache" ] ]
       IN  fetches' = [ fetches EXCEPT ![c] =
                IF got.hit
                THEN NewsapiPart(f, settings.news_api_key,
                                 cache_files["newsapi"])
                ELSE [ @ EXCEPT !.pc = "await_gnews" ] ]
    /\ UNCHANGED << now, cache_files, cache_saved >>
    /\ OthersUnchanged

\* lines 252-255, then 257-302: _fetch_gnews_rss returns (the empty list when
\* it raised inside, lines 182-184), the list is saved, and the call goes on
GnewsReturns(c) ==
    /\ fetches[c].pc = "await_gnews"
    /\ \E raised \in BOOLEAN, answer \in GnewsAnswers, write \in Writes :
        LET list == IF raised THEN << >> ELSE answer
            f == [ fetches[c] EXCEPT
                     !.gnews_articles = list,
                     !.gnews = [ from |-> "source" ] ]
        IN  /\ cache_files' = [ cache_files EXCEPT !["gnews"] =
                                    _save_cache(@, list, write, now) ]
            /\ cache_saved' = [ cache_saved EXCEPT !["gnews"] =
                                    [ data |-> list, write |-> write ] ]
            /\ fetches' = [ fetches EXCEPT ![c] =
                                NewsapiPart(f, settings.news_api_key,
                                            cache_files["newsapi"]) ]
    /\ UNCHANGED now
    /\ OthersUnchanged

\* lines 264-267, then 272-302: _fetch_newsapi returns (the empty list when it
\* raised inside, lines 224-226), the list is saved, and the call returns
NewsapiReturns(c) ==
    /\ fetches[c].pc = "await_newsapi"
    /\ \E raised \in BOOLEAN, answer \in NewsapiAnswers, write \in Writes :
        LET list == IF raised THEN << >> ELSE answer
            f == [ fetches[c] EXCEPT
                     !.newsapi_articles = list,
                     !.newsapi = [ from |-> "source" ] ]
        IN  /\ cache_files' = [ cache_files EXCEPT !["newsapi"] =
                                    _save_cache(@, list, write, now) ]
            /\ cache_saved' = [ cache_saved EXCEPT !["newsapi"] =
                                    [ data |-> list, write |-> write ] ]
            /\ fetches' = [ fetches EXCEPT ![c] = Returned(f) ]
    /\ UNCHANGED now
    /\ OthersUnchanged

\* Time passes
Tick ==
    /\ now < MaxClock
    /\ now' = now + 1
    /\ UNCHANGED << cache_files, cache_saved, fetches >>
    /\ OthersUnchanged

\* The calls alone: the code reads no clock, so time is left out
NextFetch ==
    \/ \E c \in Calls : StartFetch(c)
    \/ \E c \in Calls : GnewsReturns(c)
    \/ \E c \in Calls : NewsapiReturns(c)

SpecFetch == InitFetch /\ [][NextFetch]_vars

\* The calls while time passes
NextExpiry == NextFetch \/ Tick

SpecExpiry == InitFetch /\ [][NextExpiry]_vars

----------------------------------------------------------------------------
(* The model objects of the process under concurrent run_verification       *)
(* calls: engine._nlp_cache (engine.py lines 26-32, 86-125), the embedder   *)
(* of compute_similarity (news_fetcher.py lines 305-322, called at          *)
(* engine.py line 169) and similarity._get_model (similarity.py lines       *)
(* 13-23).  run_verification is a coroutine of the one event loop: it runs  *)
(* alone up to its first await, fetch_evidence at line 162, and alone       *)
(* again from there to save_verification.                                   *)

\* The factories that can raise when they are called
FailingFactories == {"sentiment", "xlmr_classifier", "tfidf_classifier"}

\* lines 86-125: the _get_nlp calls of steps 1 to 7 from the i-th key on.
\* st holds the cache, the builds and the instances the request was given;
\* the factories of fails raise when they are called.  A factory of steps 1
\* to 6 that raises ends the request; XLMRobertaClassifier raising leads to
\* the TF-IDF classifier, which is not asked for otherwise.
RECURSIVE Steps1To7(_, _, _)
Steps1To7(st, i, fails) ==
    LET key == PipelineKeys[i]
        called == key \notin st.cache
        built == key \notin fails
        ok == ~called \/ built
        builds1 == IF called /\ built
                   THEN [ st.builds EXCEPT ![key] = @ + 1 ]
                   ELSE st.builds
        st1 == [ cache |-> _get_nlp(st.cache, key, built),
                 builds |-> builds1,
                 instances |-> IF ok
                               THEN [ st.instances EXCEPT ![key] = builds1[key] ]
                               ELSE st.instances,
                 raised |-> key # "xlmr_classifier" /\ ~ok ]
    IN  IF st1.raised \/ key = "tfidf_classifier" THEN st1
        ELSE IF key = "xlmr_classifier" /\ ok THEN st1
        ELSE Steps1To7(st1, i + 1, fails)

InitModels ==
    /\ settings \in { WithKey(DefaultSettings, k) : k \in BOOLEAN }
    /\ RequestIdle
    /\ nlp_cache = {}
    /\ tfidf_builds = 0
    /\ firestore = {}
    /\ _HISTORY = << >>
    /\ history_file = << >>
    /\ WritersIdle
    /\ listing = NoListing
    /\ StanceIdle
    /\ FetchIdle
    /\ ModelsIdle

ModelsOthersUnchanged ==
    /\ UNCHANGED << settings, pc, route, req_id, text_len, source_tier,
                    xlmr_failed, model_tier, l1, exc, articles_left,
                    evidence_failed, evidence_score, evidence_sources, scored,
                    l2_verdict, layer2, ml_credibility, multiplier,
                    domain_adjustment, final_score, result, persist, status >>
    /\ HistoryUnchanged /\ WritersUnchanged /\ ListingUnchanged
    /\ StanceUnchanged /\ FetchUnchanged

\* lines 67-158: the request r runs steps 1 to 7 and, with a news_api_key,
\* awaits fetch_evidence
Analyse(r) ==
    /\ inflight[r].pc = "idle"
    /\ \E fails \in SUBSET FailingFactories :
        LET st == Steps1To7([ cache |-> nlp_cache, builds |-> builds,
                              instances |-> inflight[r].instances,
                              raised |-> FALSE ], 1, fails)
        IN  /\ nlp_cache' = st.cache
            /\ builds' = st.builds
            /\ tfidf_builds' = st.builds["tfidf_classifier"]
            /\ inflight' = [ inflight EXCEPT ![r] =
                    [ pc |-> IF st.raised THEN "raised"
                             ELSE IF settings.news_api_key THEN "evidence"
                             ELSE "done",
                      instances |-> st.instances ] ]
    /\ UNCHANGED similarity_model
    /\ ModelsOthersUnchanged

\* lines 162-204 with news_fetcher.py lines 305-322: fetch_evidence gave n
\* articles, and compute_similarity is called for each; every call constructs
\* SentenceTransformer("all-MiniLM-L6-v2"), of which loaded complete (a call
\* whose construction raises falls back to the word overlap)
ScoreArticles(r) ==
    /\ inflight[r].pc = "evidence"
    /\ \E n \in 0..MaxArticles :
        \E loaded \in 0..n :
            /\ builds' = [ builds EXCEPT ![Embedder] = @ + loaded ]
            /\ inflight' = [ inflight EXCEPT ![r] =
                    [ pc |-> "done",
                      instances |-> IF loaded = 0 THEN @.instances
                                    ELSE [ @.instances EXCEPT
                                             ![Embedder] = builds'[Embedder] ] ] ]
    /\ UNCHANGED << nlp_cache, tfidf_builds, similarity_model >>
    /\ ModelsOthersUnchanged

\* similarity.py lines 13-23, _get_model() under functools.lru_cache: the
\* first call loads the model, or caches None when loading raises; no step of
\* run_verification calls it (compute_similarity of similarity.py does)
GetModel ==
    /\ \E loaded \in BOOLEAN :
        similarity_model' =
            IF similarity_model.cached # "empty" THEN similarity_model
            ELSE IF loaded THEN [ cached |-> "model", loads |-> 1 ]
            ELSE [ cached |-> "None", loads |-> 0 ]
    /\ similarity_model' # similarity_model
    /\ UNCHANGED << nlp_cache, tfidf_builds, inflight, builds >>
    /\ ModelsOthersUnchanged

NextModels ==
    \/ \E r \in Inflight : Analyse(r)
    \/ \E r \in Inflight : ScoreArticles(r)
    \/ GetModel

SpecModels == InitModels /\ [][NextModels]_vars

----------------------------------------------------------------------------
(* Properties of the fusion *)

\* The fusion of the current request has run
Fused == result.verdict # "none"

\* base_score + domain_adjustment of the current request, before the clamp
RawSum == BaseScore(settings, ml_credibility, evidence_score) + domain_adjustment

\* C1: for every Layer-1 verdict and confidence, every evidence score and every
\* source tier (or none), final_score lies in [0,100]; a sum below 0 is
\* reported as 0 and a sum above 100 as 100.
C1_FinalScoreClamped ==
    Fused =>
        /\ final_score >= 0 /\ final_score <= 1000
        /\ result.final_score = final_score
        /\ (RawSum < 0 => final_score = 0)
        /\ (RawSum > 100 * U => final_score = 1000)

\* C1 witness: a known-fake source drives the sum below 0 and 0 is reported
C1_Witness ==
    Fused /\ source_tier = 4 /\ RawSum < 0 /\ final_score = 0

\* C2: the verdict is decided by final_score and the two thresholds only, with
\* inclusive boundaries, and exactly one verdict is produced.
C2_VerdictByThresholds ==
    Fused =>
        /\ result.verdict \in Verdicts
        /\ (result.verdict = "Credible") <=>
               (final_score >= settings.credible_threshold)
        /\ (result.verdict = "Unverified") <=>
               (/\ final_score < settings.credible_threshold
                /\ final_score >= settings.fake_threshold)
        /\ (result.verdict = "Likely Fake") <=>
               (/\ final_score < settings.credible_threshold
                /\ final_score < settings.fake_threshold)

\* C2 witness: with the default thresholds a final_score of exactly 70.0 is Credible
C2_Witness ==
    /\ Fused /\ settings.credible_threshold = 700
    /\ final_score = 700 /\ result.verdict = "Credible"

\* The reference formula of the fusion, written from its statement
RefMlCredibility == IF l1.verdict = "Credible" THEN l1.confidence
                    ELSE 1000 - l1.confidence
RefBaseAdj(t) == CASE t = 1 -> 20 [] t = 2 -> 0 - 5 [] t = 3 -> 0 - 10 [] t = 4 -> 0 - 35
RefImplied(t) == CASE t = 1 -> 75 [] t = 2 -> 50 [] t = 3 -> 50 [] t = 4 -> 25
\* base_adj(tier) * min(1.5, 1 + |ml_credibility - implied|/100), in 1/U points
RefAdjustment ==
    IF source_tier = NoTier THEN 0
    ELSE LET d == Abs(RefMlCredibility - 10 * RefImplied(source_tier))   \* tenths
             m == IF 1000 + d > 1500 THEN 1500 ELSE 1000 + d             \* thousandths
         IN  (RefBaseAdj(source_tier) * m * U) \div 1000
RefBase ==
    (RefMlCredibility * settings.ml_weight * U) \div 1000
    + (evidence_score * settings.evidence_weight) \div 100
RefClamped ==
    LET x == RefBase + RefAdjustment
    IN  IF x < 0 THEN 0 ELSE IF x > 100 * U THEN 100 * U ELSE x

\* C3: the fusion equals the reference formula: ml_credibility, the domain
\* adjustment, and final_score = clamp(base + adjustment, 0, 100) rounded to one
\* decimal (a nearest tenth); tier Credible with ml_credibility 20 gives +30.
C3_FusionFormula ==
    Fused =>
        /\ ml_credibility = RefMlCredibility
        /\ domain_adjustment = RefAdjustment
        /\ 2 * Abs(final_score * TenthU - RefClamped) <= TenthU
        /\ (source_tier = 1 /\ ml_credibility = 200 => domain_adjustment = 30 * U)

\* C3 witness: an Unverified verdict of confidence 80 on a tier-1 source:
\* ml_credibility 20, adjustment +30
C3_Witness ==
    /\ Fused /\ l1.verdict = "Unverified" /\ l1.confidence = 800
    /\ source_tier = 1 /\ ml_credibility = 200 /\ domain_adjustment = 30 * U

DefaultWeights == settings.ml_weight = 40 /\ settings.evidence_weight = 60

\* C28: with the default weights, for a fixed evidence_score and a fixed
\* source tier (or none), final_score is non-decreasing in ml_credibility:
\* every Layer-1 output of higher ml_credibility gives a final_score that is
\* not lower.
C28_MonotoneInMlCredibility ==
    (Fused /\ DefaultWeights) =>
        \A v2 \in Verdicts, c2 \in Confidences :
            (IF v2 = "Credible" THEN c2 ELSE 1000 - c2) > ml_credibility =>
                \A fs2 \in FinalScores(settings, v2, c2, evidence_score, source_tier) :
                    fs2 >= final_score

\* C28 witness: a known-fake source at ml_credibility 50 with a final_score
\* inside (0,100); at ml_credibility 75 the penalty is larger (-52.5 instead
\* of -43.75) and the final_score is still not lower
C28_Witness ==
    /\ Fused /\ DefaultWeights /\ source_tier = 4 /\ ml_credibility = 500
    /\ 4 * domain_adjustment = (0 - 175) * U
    /\ final_score > 0 /\ final_score < 1000
    /\ 2 * DomainAdjustment(source_tier, 750) = (0 - 105) * U
    /\ \A fs2 \in FinalScores(settings, "Credible", 750, evidence_score, source_tier) :
           fs2 >= final_score

----------------------------------------------------------------------------
(* Properties of run_verification and of the routes *)

\* The documented default of evidence_score, in tenths
DocumentedDefault(tier) ==
    CASE tier = 1 -> 650 [] tier = 2 -> 450 [] tier = 3 -> 500
      [] tier = 4 -> 250 [] OTHER -> 500

\* The evidence step is over and gathered no article: no key is configured,
\* fetch_evidence raised, or it returned an empty list
NoArticleGathered ==
    /\ l2_verdict # "none"
    /\ pc # "articles"
    /\ evidence_sources = << >>
    /\ articles_left = 0

\* C5: when no evidence article is gathered, run_verification completes, and
\* layer2 has the tier's default evidence_score (65/45/50/25, 50 without a
\* source domain), verdict Unverified and no sources.
C5_NoEvidenceDefaults ==
    NoArticleGathered =>
        /\ pc # "raised"
        /\ evidence_score = DocumentedDefault(source_tier) * TenthU
        /\ Fused =>
               /\ layer2 = [ verdict |-> "Unverified",
                             evidence_score |-> DocumentedDefault(source_tier),
                             sources |-> << >> ]
               /\ result.layer2 = layer2
               /\ result.verdict \in Verdicts

\* C5 witness: fetch_evidence raised for a text of a tier-1 source, and the
\* request returned with evidence_score 65
C5_Witness ==
    /\ pc = "returned" /\ NoArticleGathered /\ evidence_failed
    /\ source_tier = 1 /\ result.layer2.evidence_score = 650

\* C6: if the evidence step fails with an exception at any point, the result
\* has an empty layer2.sources and the documented default evidence_score.
C6_FailedEvidenceHasNoSources ==
    (Fused /\ evidence_failed) =>
        /\ result.layer2.sources = << >>
        /\ result.layer2.evidence_score = DocumentedDefault(source_tier)

\* classifier.predict raised in the current request
PredictRaised ==
    /\ pc \in {"raised", "responded"}
    /\ model_tier # "none"
    /\ l1 = NoL1

Recorded(id) ==
    \/ id \in firestore
    \/ \E i \in DOMAIN _HISTORY : _HISTORY[i] = id
    \/ \E i \in DOMAIN history_file : history_file[i] = id

\* C7: if classifier.predict raises, run_verification raises: no result, no
\* verdict, no history entry, and the route answers 500.
C7_PredictFailureIs500 ==
    PredictRaised =>
        /\ result = NoResult
        /\ ~Recorded(req_id)
        /\ pc = "responded" => status = 500

C9_PersistenceNeverAffectsResult ==
    [][ pc = "persist" =>
            (pc' = "returned" /\ result' = result /\ result.verdict \in Verdicts) ]_vars

\* C9 witness: Firestore was unavailable, record_verification raised on the
\* first call and on the retry, and the request returned its result
C9_Witness ==
    /\ pc = "returned"
    /\ persist = [ save |-> "unavailable", first |-> "raise", retry |-> "raise" ]
    /\ result.verdict \in Verdicts /\ result.final_score = final_score

----------------------------------------------------------------------------
(* Properties of the history file *)

AllWritten == \A w \in Writers : wpc[w] = "done"

Occurrences(seq, x) == Cardinality({ i \in DOMAIN seq : seq[i] = x })

\* C10: the read-append-write of the history file is mutually exclusive, and
\* when all calls have finished and no file read or write failed, the file
\* holds what it held before followed by each appended entry exactly once.
C10_NoLostAppend ==
    /\ Cardinality({ w \in Writers : wpc[w] \in {"load", "write"} }) <= 1
    /\ \A w \in Writers : wpc[w] \in {"load", "write"} => file_lock = w
    /\ (AllWritten /\ io_failed = {}) =>
           /\ Len(history_file) = Len(file_before) + Cardinality(Writers)
           /\ SubSeq(history_file, 1, Len(file_before)) = file_before
           /\ \A w \in Writers : Occurrences(history_file, w) = 1

\* C10 witness: two calls interleaved (writer 1 appended to the list first,
\* writer 2 wrote the file first), nothing failed, the file holds both
C10_Witness ==
    /\ AllWritten /\ io_failed = {}
    /\ file_before = << 0 >>
    /\ _HISTORY[1] = 1
    /\ history_file[2] = 2
    /\ Occurrences(history_file, 1) = 1

\* C11: history writes are append-only: every step of a record_verification
\* call leaves each entry of the history file in place, unchanged and in the
\* same order, also when reading the existing file fails during the call.
C11_HistoryAppendOnly ==
    [][ /\ Len(history_file') >= Len(history_file)
        /\ SubSeq(history_file', 1, Len(history_file)) = history_file ]_vars

\* run_verification returned for request id: its persistence step has run,
\* and that step leaves the id in Firestore or, failing that, in _HISTORY
Completed(id) ==
    \/ id \in firestore
    \/ \E i \in DOMAIN _HISTORY : _HISTORY[i] = id

\* C12: a GET /history without verdict filter and with a page that holds all
\* entries, served after verifications have completed, returns an entry for
\* each of them, whatever the availability of Firestore at write time and at
\* read time.
C12_CompletedIsListed ==
    (listing.tier # "none" /\ listing.page = 1 /\ listing.limit >= listing.at) =>
        \A id \in 1..listing.at :
            Completed(id) => \E i \in DOMAIN listing.entries : listing.entries[i] = id

\* run_verification was invoked for the current request
Invoked ==
    \/ pc \in {"layer1", "enrich", "evidence", "articles", "fuse", "persist",
              "returned", "raised"}
    \/ pc = "responded" /\ (model_tier # "none" \/ xlmr_failed)

\* The minimum length of the claim: 20 for a URL, 10 for an image or a video
DocumentedMinimum(r) == CASE r = "url" -> 20 [] r = "image" -> 10 [] r = "video" -> 10

\* C13: in verify_url, verify_image and verify_video run_verification is
\* invoked only with an extracted text of at least the minimum length (for a
\* URL after the OG-meta fallback); when the extraction yields less, the route
\* answers 422, the engine is never invoked and no history entry is recorded.
C13_ExtractionGuardsFusion ==
    route \in {"url", "image", "video"} =>
        /\ Invoked => text_len >= DocumentedMinimum(route)
        /\ (text_len # NoText /\ text_len < DocumentedMinimum(route)) =>
               /\ pc = "responded" /\ status = 422
               /\ ~Invoked
               /\ result = NoResult
               /\ ~Recorded(req_id)

\* C13 witness: scrape_url and then the OG fallback gave 19 characters, and
\* the second request was answered 422 without a result
C13_Witness ==
    /\ route = "url" /\ req_id = 2 /\ text_len = 19
    /\ pc = "responded" /\ status = 422 /\ result = NoResult

----------------------------------------------------------------------------
(* Properties of detect_stance *)

\* detect_stance has returned for the article
StanceDetected == stance_result # NoStanceResult

\* The URL of the article contains a known fact-check domain
FactCheckUrl ==
    \E d \in _FACTCHECK_DOMAINS : Contains(LowerAll(article.url), d)

\* The number of refutation and of support patterns that match title + description
RefutationMatches ==
    Len(_scan_keywords(LowerAll(article.title \o article.description),
                       _REFUTATION_KEYWORDS))
SupportMatches ==
    Len(_scan_keywords(LowerAll(article.title \o article.description),
                       _SUPPORT_KEYWORDS))

\* C14: an article whose URL contains a known fact-check domain is Refutes
\* with confidence 0.90, whatever its title, description and similarity.
C14_FactCheckDomainRefutes ==
    (StanceDetected /\ FactCheckUrl) =>
        (stance_result.stance = "Refutes" /\ stance_result.confidence = 90)

\* C14 witness: a fact-check URL, a support keyword, similarity 0.14
C14_Witness ==
    /\ StanceDetected /\ FactCheckUrl
    /\ SupportMatches >= 1 /\ RefutationMatches = 0 /\ article.similarity = 14
    /\ stance_result.stance = "Refutes" /\ stance_result.confidence = 90

C16_RefutationBeforeSupport ==
    (StanceDetected /\ ~FactCheckUrl /\ article.similarity >= 15
                    /\ RefutationMatches >= 1) =>
        /\ stance_result.stance = "Refutes"
        /\ stance_result.confidence =
               (IF 65 + 10 * RefutationMatches > 95 THEN 95
                ELSE 65 + 10 * RefutationMatches)

\* C16 witness: "fact check" and "false" (two refutation matches) with the
\* support match "authorized", at similarity 1.0
C16_Witness ==
    /\ StanceDetected /\ ~FactCheckUrl /\ article.similarity = 100
    /\ RefutationMatches = 2 /\ SupportMatches = 1 /\ article.description = << >>
    /\ stance_result.stance = "Refutes" /\ stance_result.confidence = 85

\* The support rule applies to the article
SupportRule ==
    /\ ~FactCheckUrl /\ RefutationMatches = 0
    /\ SupportMatches >= 1 /\ article.similarity >= 35

\* min(0.90, 0.50 + 0.10 n + 0.20 similarity), in thousandths
SupportFormula ==
    LET t == 500 + 100 * SupportMatches + 2 * article.similarity
    IN  IF t > 900 THEN 900 ELSE t

\* C17 as stated: Supports is returned if and only if the support rule
\* applies, with confidence min(0.90, 0.50 + 0.10 n + 0.20 similarity); a
\* support match with similarity in [0.15, 0.35) gives Not Enough Info, 0.70.
C17_SupportsExactConfidence ==
    StanceDetected =>
        /\ (stance_result.stance = "Supports") <=> SupportRule
        /\ SupportRule => stance_result.confidence * 10 = SupportFormula
        /\ (/\ ~FactCheckUrl /\ RefutationMatches = 0 /\ SupportMatches >= 1
            /\ article.similarity >= 15 /\ article.similarity < 35) =>
               (/\ stance_result.stance = "Not Enough Info"
                /\ stance_result.confidence = 70)

\* C17 amended: the same, with the confidence rounded to two decimals.
C17_SupportsRoundedConfidence ==
    StanceDetected =>
        /\ (stance_result.stance = "Supports") <=> SupportRule
        /\ SupportRule =>
               2 * Abs(stance_result.confidence * 10 - SupportFormula) < 10
        /\ (/\ ~FactCheckUrl /\ RefutationMatches = 0 /\ SupportMatches >= 1
            /\ article.similarity >= 15 /\ article.similarity < 35) =>
               (/\ stance_result.stance = "Not Enough Info"
                /\ stance_result.confidence = 70)

\* C17 witness: one support match at similarity 0.36: 0.672, returned as 0.67
C17_Witness ==
    /\ StanceDetected /\ SupportRule
    /\ SupportMatches = 1 /\ article.similarity = 36
    /\ stance_result.stance = "Supports" /\ stance_result.confidence = 67

----------------------------------------------------------------------------
(* Properties of compute_evidence_score *)

\* compute_evidence_score has returned for the current lists
Scored == aggregate # NoAggregate

\* The entries that are not Not Enough Info, each with its similarity (0.5
\* when the list of similarities has none at its index)
Decisive ==
    SelectSeq([ i \in DOMAIN stances |->
                  [ stance |-> stances[i].stance,
                    confidence |-> stances[i].confidence,
                    similarity |-> IF i \in DOMAIN similarities
                                   THEN similarities[i] ELSE 50 ] ],
              LAMBDA e : e.stance # "Not Enough Info")

\* 50 + sum over Supports of 10 (0.5 + similarity) - sum over Refutes of
\* 15 confidence, in hundredths of a point
RECURSIVE RefEvidenceSum(_)
RefEvidenceSum(es) ==
    IF es = << >> THEN 5000
    ELSE LET e == es[Len(es)]
         IN  RefEvidenceSum(SubSeq(es, 1, Len(es) - 1))
             + (IF e.stance = "Supports" THEN 10 * (50 + e.similarity)
                ELSE 0 - 15 * e.confidence)

RefEvidenceClamped ==
    LET x == RefEvidenceSum(Decisive)
    IN  IF x < 0 THEN 0 ELSE IF x > 10000 THEN 10000 ELSE x

Supporting == Cardinality({ i \in DOMAIN stances : stances[i].stance = "Supports" })
Refuting == Cardinality({ i \in DOMAIN stances : stances[i].stance = "Refutes" })

C19_EvidenceVerdictRule ==
    Scored =>
        /\ (aggregate.verdict = "Likely Fake") <=> (Refuting > Supporting)
        /\ (aggregate.verdict = "Credible") <=>
               (Refuting <= Supporting /\ Supporting >= 2 /\ aggregate.score >= 600)
        /\ aggregate.verdict \in {"Likely Fake", "Credible", "Unverified"}
        /\ aggregate.verdict = "Credible" => aggregate.score >= 600
        /\ (/\ Len(stances) = 2
            /\ \A i \in 1..2 : stances[i] = [ stance |-> "Refutes", confidence |-> 90 ]) =>
               aggregate = [ score |-> 230, verdict |-> "Likely Fake" ]

\* C19 witness: two Supports (similarities 0 and 0.91) and one Refutes of
\* confidence 0.9: 55.6 is below 60, Unverified
C19_Witness ==
    /\ Scored /\ Supporting = 2 /\ Refuting = 1
    /\ RefEvidenceSum(Decisive) = 5560
    /\ aggregate = [ score |-> 556, verdict |-> "Unverified" ]

\* C20: one more Refutes entry never raises the score and one more Supports
\* entry (with a similarity in [0,1]) never lowers it, the other entries being
\* the same, also at the clamp bounds 0 and 100.
C20_ScoreMonotone ==
    [][ (Scored /\ Len(stances') = Len(stances) + 1) =>
            LET added == stances'[Len(stances')]
            IN  /\ added.stance = "Refutes" => aggregate'.score <= aggregate.score
                /\ added.stance = "Supports" => aggregate'.score >= aggregate.score ]_vars

\* C20 witness: a fifth Refutes entry on a score already clamped to 0
C20_Witness ==
    /\ Scored /\ Len(stances) = 5 /\ Refuting = 5
    /\ RefEvidenceSum(SubSeq(Decisive, 1, 4)) < 0
    /\ aggregate.score = 0

\* C21: compute_evidence_score is independent of the order of the articles:
\* the same permutation applied to stances and to similarities (of equal
\* length) gives the same score and the same verdict.
C21_OrderIndependent ==
    [][ (/\ Scored /\ Len(similarities) = Len(stances)
         /\ \E i \in 1..(Len(stances) - 1) :
                stances' = Swap(stances, i) /\ similarities' = Swap(similarities, i))
            => aggregate' = aggregate ]_vars

----------------------------------------------------------------------------
(* Properties of the Layer-2 result and of the classifier's record *)

\* What detect_stance returns for the article of the i-th source
DetectedStance(i) ==
    detect_stance([ title |-> scored[i].title,
                    description |-> scored[i].description,
                    url |-> scored[i].url,
                    similarity |-> evidence_sources[i].similarity ])

\* C22: when articles were retrieved and scored, each source's stance is the
\* one detect_stance gives for its article, and layer2.evidence_score and
\* layer2.verdict are what compute_evidence_score returns for those stances
\* and similarities.
C22_Layer2RefinesEvidencePipeline ==
    (Fused /\ ~evidence_failed /\ evidence_sources # << >>) =>
        /\ \A i \in DOMAIN result.layer2.sources :
               result.layer2.sources[i].stance = DetectedStance(i).stance
        /\ [ score |-> result.layer2.evidence_score,
             verdict |-> result.layer2.verdict ]
               \in compute_evidence_score(
                      [ i \in DOMAIN evidence_sources |-> DetectedStance(i) ],
                      [ i \in DOMAIN evidence_sources |->
                            evidence_sources[i].similarity ])

\* C23: run_verification does not change the record classifier.predict
\* returned: once predict has returned it, its verdict, confidence and
\* triggered_features stay what the classifier produced.
C23_ClassifierRecordKept ==
    [][ (l1 # NoL1 /\ l1' # NoL1) => l1' = l1 ]_vars

----------------------------------------------------------------------------
(* The source tier as a bound of the verdict *)

\* The default thresholds 70 / 40 are configured
DefaultThresholds ==
    settings.credible_threshold = 700 /\ settings.fake_threshold = 400

\* C29: with the default weights and thresholds and no evidence article
\* gathered, for every Layer-1 output a tier-4 source gives Likely Fake with
\* final_score <= 2.5 and a tier-1 source gives final_score >= 69, never
\* Likely Fake.
C29_TierBoundsVerdict ==
    (/\ Fused /\ DefaultWeights /\ DefaultThresholds
     /\ evidence_sources = << >>
     /\ evidence_score = DocumentedDefault(source_tier) * TenthU) =>
        /\ source_tier = 4 =>
               (result.verdict = "Likely Fake" /\ result.final_score <= 25)
        /\ source_tier = 1 =>
               (result.verdict # "Likely Fake" /\ result.final_score >= 690)

\* C29 witness: a known-fake source the model rates fully credible reaches
\* the bound 2.5, Likely Fake
C29_Witness ==
    /\ Fused /\ DefaultWeights /\ DefaultThresholds
    /\ evidence_sources = << >> /\ evidence_score = 25 * U
    /\ source_tier = 4 /\ ml_credibility = 1000
    /\ result.final_score = 25 /\ result.verdict = "Likely Fake"

----------------------------------------------------------------------------
(* Properties of fetch_evidence *)

\* The source lists in the order of the three groups: the Philippine Google
\* News articles, the NewsAPI articles, the other Google News articles
Grouped(gnews_articles, newsapi_articles) ==
    SelectSeq(gnews_articles, _is_ph_article) \o newsapi_articles
        \o SelectSeq(gnews_articles, LAMBDA art : ~_is_ph_article(art))

\* The article at i has no key, or is the first of seq with its key
FirstOfKey(seq, i) ==
    \/ dedup_key(seq[i]) = << >>
    \/ \A j \in 1..(i - 1) : dedup_key(seq[j]) # dedup_key(seq[i])

RECURSIVE FirstsFrom(_, _)
FirstsFrom(seq, i) ==
    IF i > Len(seq) THEN << >>
    ELSE IF FirstOfKey(seq, i) THEN << seq[i] >> \o FirstsFrom(seq, i + 1)
    ELSE FirstsFrom(seq, i + 1)

FirstN(seq, n) == SubSeq(seq, 1, Min(n, Len(seq)))

\* C24: the list fetch_evidence returns is the first max_results articles of
\* the Philippine Google News articles, then the NewsAPI articles, then the
\* other Google News articles, each group in source order, of which only the
\* first article of each non-empty dedup key is kept; so no two returned
\* articles share a non-empty dedup key and at most max_results are returned
C24_MergeOfTheTwoLists ==
    merged.done =>
        LET out == merged.articles
        IN  /\ out = FirstN(FirstsFrom(Grouped(merge_in.gnews_articles,
                                               merge_in.newsapi_articles), 1),
                            merge_in.max_results)
            /\ Len(out) <= merge_in.max_results
            /\ \A i, j \in DOMAIN out :
                (i # j /\ dedup_key(out[i]) # << >>)
                    => dedup_key(out[i]) # dedup_key(out[j])

\* A merge that moves a Philippine article forward, drops the second article
\* of rappler.com and cuts the list at max_results
C24_Witness ==
    /\ merged.done
    /\ merge_in.gnews_articles
        = << Art("c", << "news", "google.com" >>, << "BBC" >>),
             Art("a", << "news", "google.com" >>, << "GMA", "Network" >>) >>
    /\ merge_in.newsapi_articles
        = << Art("d", << "www", "rappler.com" >>, << "Rappler" >>),
             Art("e", << "rappler.com" >>, << "Rappler" >>) >>
    /\ merge_in.max_results = 5
    /\ merged.articles
        = << Art("a", << "news", "google.com" >>, << "GMA", "Network" >>),
             Art("d", << "www", "rappler.com" >>, << "Rappler" >>),
             Art("c", << "news", "google.com" >>, << "BBC" >>) >>

----------------------------------------------------------------------------
(* Properties of the cache of fetch_evidence *)

ListOf(f, p) == IF p = "gnews" THEN f.gnews_articles ELSE f.newsapi_articles
From(f, p) == IF p = "gnews" THEN f.gnews.from ELSE f.newsapi.from

\* The call c takes its list of p from the cache in this step
Served(c, p) ==
    /\ From(fetches[c], p) = "none"
    /\ From(fetches'[c], p) = "cache"

\* C25: a cached list is used only within a fixed time-to-live after it was
\* written: there is a time-to-live of at most MaxClock ticks such that no
\* call takes a list from a cache file that is as old as that or older
C25_CacheEntryExpires ==
    [][ \A c \in Calls, p \in Prefixes :
            Served(c, p) => now - cache_files[p].at < MaxClock ]_vars

\* The lists the _save_cache calls for p were given: the lists the calls got
\* from the source
Written(p) ==
    { ListOf(fetches[c], p) : c \in { d \in Calls : From(fetches[d], p) = "source" } }

\* C26: under any interleaving of the calls, _load_cache gives None or a
\* complete list some _save_cache call wrote for the key: the list a call
\* took from the cache, and the list a file holds, is one of the lists
\* written; and the file is what the last write left: the list of the last
\* _save_cache call when its write completed, and no entry (a text
\* _load_cache rejects) when it failed midway
C26_CacheNeverMixed ==
    \A p \in Prefixes :
        /\ \A c \in Calls :
            From(fetches[c], p) = "cache" => ListOf(fetches[c], p) \in Written(p)
        /\ _load_cache(cache_files[p]).hit => cache_files[p].data \in Written(p)
        /\ cache_saved[p].write = "ok" =>
            /\ _load_cache(cache_files[p]).hit
            /\ cache_files[p].data = cache_saved[p].data
        /\ cache_saved[p].write = "partial" => ~_load_cache(cache_files[p]).hit

\* Two calls missed the Google News file together and wrote different lists
\* one after the other; the file holds the list of the second
C26_Witness ==
    \E c, d \in Calls :
        /\ c # d
        /\ fetches[c].gnews.from = "source"
        /\ fetches[d].gnews.from = "source"
        /\ fetches[c].gnews_articles # << >>
        /\ fetches[d].gnews_articles = << >>
        /\ cache_saved["gnews"] = [ data |-> << >>, write |-> "ok" ]
        /\ cache_files["gnews"].valid
        /\ cache_files["gnews"].data = << >>

\* The call c loads the cache file of p in this step
Loads(c, p) ==
    IF p = "gnews"
    THEN fetches[c].pc = "idle" /\ fetches'[c].pc # "idle"
    ELSE /\ settings.news_api_key
         /\ fetches[c].pc \in {"idle", "await_gnews"}
         /\ fetches'[c].pc \in {"await_newsapi", "done"}

\* The call c is back from the source of p in this step
Fetched(c, p) ==
    /\ fetches[c].pc = (IF p = "gnews" THEN "await_gnews" ELSE "await_newsapi")
    /\ fetches'[c].pc # fetches[c].pc

\* C30: while the cache file of a source holds a list, fetch_evidence does not
\* call the source: a call that loads the file takes the stored list, the
\* empty list included, and neither awaits the source nor saves; and what a
\* fetch returned is the stored list when the cache write succeeds
C30_SourceCalledOncePerQuery ==
    [][ \A c \in Calls, p \in Prefixes :
            /\ (Loads(c, p) /\ cache_files[p].exists /\ cache_files[p].valid) =>
                /\ Served(c, p)
                /\ ListOf(fetches'[c], p) = cache_files[p].data
                /\ fetches'[c].pc # (IF p = "gnews" THEN "await_gnews"
                                                   ELSE "await_newsapi")
                /\ cache_saved'[p] = cache_saved[p]
                /\ cache_files'[p] = cache_files[p]
            /\ (Fetched(c, p) /\ cache_saved'[p].write = "ok") =>
                /\ cache_files'[p].exists /\ cache_files'[p].valid
                /\ cache_files'[p].data = ListOf(fetches'[c], p) ]_vars

\* A fetch of Google News failed, its empty list was stored, and a later call
\* took the empty list from the cache
C30_Witness ==
    \E c, d \in Calls :
        /\ fetches[c].gnews.from = "source"
        /\ fetches[c].gnews_articles = << >>
        /\ fetches[c].pc = "done"
        /\ fetches[d].gnews.from = "cache"
        /\ fetches[d].gnews_articles = << >>
        /\ fetches[d].pc = "done"
        /\ cache_saved["gnews"] = [ data |-> << >>, write |-> "ok" ]

----------------------------------------------------------------------------
(* Properties of the model objects *)

\* The model object k was constructed at most once and every request that
\* was given an instance of it was given that one
InitializedOnce(k) ==
    /\ builds[k] <= 1
    /\ \A r \in Inflight : inflight[r].instances[k] \in {0, 1}

\* C27: over any interleaving of in-flight run_verification calls every
\* model object of the process (the objects of _nlp_cache, the similarity
\* embedder) is initialized once: its construction completes at most once,
\* every request is given the same instance, and an entry of _nlp_cache is
\* never removed or replaced
C27_ModelsInitializedOnce ==
    /\ \A k \in ModelObjects : InitializedOnce(k)
    /\ \A k \in CacheKeys : (k \in nlp_cache) <=> (builds[k] = 1)
    /\ similarity_model.loads <= 1

====
